---- MODULE Spec2Model ----
(***************************************************************************)
(* Model of the run characterization pipeline of GW_turbulence             *)
(* (src/run.py, src/reading.py).                                           *)
(*                                                                         *)
(* Numbers.  Python floats are modelled by exact rationals <<n, d>> in      *)
(* lowest terms with d > 0 (floating-point rounding is not modelled).      *)
(* Square roots are kept exact as surds [rad |-> q], standing for sqrt(q). *)
(* Arrays.  A 1D numpy array is a sequence of rationals, a 2D array        *)
(* [time, wavenumber] a sequence of rows.  Python index i is TLA+ index    *)
(* i + 1, so the slice a[1:] is Tail(a).                                   *)
(***************************************************************************)
EXTENDS Integers, Sequences, FiniteSets, TLC

(***************************************************************************)
(* Bounds of the model.                                                    *)
(***************************************************************************)
\* largest number of per-run operations invoked on one ingested Run
MaxOps == 2
\* largest number of stress / GW spectrum files of one run directory
MaxFiles == 3

(***************************************************************************)
(* Exact rational arithmetic (the float operators of Python and numpy).    *)
(***************************************************************************)
Abs(n) == IF n < 0 THEN -n ELSE n

RECURSIVE GCD(_, _)
GCD(a, b) == IF b = 0 THEN a ELSE GCD(b, a % b)

RNorm(n, d) ==
    LET g == GCD(Abs(n), Abs(d))
        s == IF d < 0 THEN -1 ELSE 1
    IN  IF g = 0 THEN <<0, 0>> ELSE <<(s * n) \div g, (s * d) \div g>>

R(n, d) == RNorm(n, d)
RInt(n) == <<n, 1>>
Zero == <<0, 1>>
One == <<1, 1>>

RAdd(a, b) == RNorm(a[1] * b[2] + b[1] * a[2], a[2] * b[2])
RSub(a, b) == RNorm(a[1] * b[2] - b[1] * a[2], a[2] * b[2])
RMul(a, b) == RNorm(a[1] * b[1], a[2] * b[2])
\* x / 0 is <<1, 0>>, <<-1, 0>> or <<0, 0>> (inf, -inf, nan)
RDiv(a, b) == RNorm(a[1] * b[2], a[2] * b[1])
RSq(a) == RMul(a, a)
RLt(a, b) == a[1] * b[2] < b[1] * a[2]
RLe(a, b) == a[1] * b[2] <= b[1] * a[2]
RGt(a, b) == RLt(b, a)
RMax(a, b) == IF RLt(a, b) THEN b ELSE a

\* np.sqrt(x) for x >= 0, kept exact
Sqrt(q) == [rad |-> q]

(***************************************************************************)
(* numpy helpers                                                           *)
(***************************************************************************)
\* a[1:] of a 1D array, sp[:, 1:] of a 2D array
Slice1(a) == Tail(a)
Slice1Cols(sp) == [i \in 1..Len(sp) |-> Tail(sp[i])]

\* np.argmax(a): index of the first occurrence of the maximum
ArgMax(a) ==
    CHOOSE i \in 1..Len(a) :
        /\ \A j \in 1..Len(a) : RLe(a[j], a[i])
        /\ \A j \in 1..(i - 1) : RLt(a[j], a[i])

\* np.trapz(y, x)
RECURSIVE TrapzFrom(_, _, _)
TrapzFrom(y, x, i) ==
    IF i >= Len(x) THEN Zero
    ELSE RAdd(RMul(RSub(x[i + 1], x[i]),
                   RDiv(RAdd(y[i + 1], y[i]), RInt(2))),
              TrapzFrom(y, x, i + 1))
Trapz(y, x) == TrapzFrom(y, x, 1)

\* np.interp(x, xp, fp) at one point x, for increasing xp
Interp1(x, xp, fp) ==
    IF RLe(x, xp[1]) THEN fp[1]
    ELSE IF RLe(xp[Len(xp)], x) THEN fp[Len(fp)]
    ELSE LET i == CHOOSE j \in 1..(Len(xp) - 1) :
                      RLe(xp[j], x) /\ RLt(x, xp[j + 1])
         IN  RAdd(fp[i],
                  RMul(RSub(fp[i + 1], fp[i]),
                       RDiv(RSub(x, xp[i]), RSub(xp[i + 1], xp[i]))))
Interp(xs, xp, fp) == [i \in 1..Len(xs) |-> Interp1(xs[i], xp, fp)]

\* dict.update({key: val})
Update(d, key, val) == (key :> val) @@ d
\* list membership and list.append guarded by "not in"
InList(x, l) == \E i \in 1..Len(l) : l[i] = x
AppendNew(l, x) == IF InList(x, l) THEN l ELSE Append(l, x)

(***************************************************************************)
(* The ingested data: what read_spectra_runs and read_ts hand to           *)
(* run.__init__.  Every array is drawn from a small family.                *)
(***************************************************************************)
\* the wavenumber grid k * k0 (k0 = 1): with and without a zero first bin
KGrid0 == <<Zero, One, RInt(3)>>
KGrids == { KGrid0, <<One, RInt(2), RInt(4)>> }

\* stress and GW spectra, in the order the files are read (helical last)
DerivOrder == <<"Str", "GWs", "GWh", "GWm", "helStr", "helGWs", "helGWh", "helGWm">>
DerivNames == {DerivOrder[i] : i \in 1..Len(DerivOrder)}
EnergyOrder == <<"mag", "kin">>
\* a spectrum file power_pot_u.dat
OddName == "pot_u"
IsHel(S) == S \in {"helStr", "helGWs", "helGWh", "helGWm"}
NameNo(S) == CHOOSE i \in 1..Len(DerivOrder) : DerivOrder[i] = S

\* time grid of the stress spectra and of the GW spectra (data set v)
DerivT(S, v) ==
    IF S \in {"Str", "helStr"}
    THEN (IF v = 1 THEN <<One, RInt(3)>> ELSE <<R(1, 2), RInt(2)>>)
    ELSE (IF v = 1 THEN <<One, RInt(2)>> ELSE <<R(3, 2), RInt(3)>>)

\* values of spectrum S in data set v; helical spectra are signed
DerivArr(S, v) ==
    [i \in 1..2 |-> [j \in 1..3 |->
        RInt(((NameNo(S) + i * v + 2 * j) % 5) - (IF IsHel(S) THEN 2 ELSE 0))]]

\* time grid of the time series and of the mag / kin spectra
TsT == <<R(9, 10), One, R(11, 10)>>
EnergyT == <<R(9, 10), R(11, 10)>>

\* mag / kin spectra: rows over EnergyT, columns over k
EnergyArrs ==
    { << <<Zero, R(1, 10), R(1, 10)>>, <<Zero, R(1, 5), R(1, 10)>> >>,
      << <<RInt(5), R(1, 5), Zero>>, <<Zero, Zero, R(1, 10)>> >>,
      << <<Zero, R(1, 10), R(2, 5)>>, <<One, R(2, 5), R(2, 5)>> >>,
      << <<Zero, Zero, Zero>>, <<Zero, Zero, Zero>> >> }

\* the kin spectra of the family
KinArrs ==
    { << <<Zero, R(1, 10), R(1, 10)>>, <<Zero, R(1, 5), R(1, 10)>> >>,
      << <<Zero, Zero, Zero>>, <<Zero, Zero, Zero>> >> }

\* EEK series over TsT
EEKSeries == { <<Zero, R(1, 10), Zero>>, <<R(3, 10), R(3, 10), R(1, 10)>> }

\* EEM series over TsT
EESeries ==
    { <<R(1, 10), R(1, 5), R(3, 10)>>,
      <<Zero, R(1, 10), Zero>>,
      <<R(3, 10), R(3, 10), R(1, 10)>>,
      <<Zero, Zero, Zero>> }

\* the other columns of time_series.dat used by the pipeline
TsOrder == <<"EEM", "EEK", "urms", "umax", "bmax">>
TsNames == {TsOrder[i] : i \in 1..Len(TsOrder)}
TsFixed(n) ==
    CASE n = "EEM" -> <<R(1, 10), R(1, 5), R(3, 10)>>
      [] n = "EEK" -> <<Zero, R(1, 10), Zero>>
      [] n = "urms" -> <<Zero, R(1, 2), One>>
      [] n = "umax" -> <<One, RInt(2), One>>
      [] n = "bmax" -> <<R(1, 2), One, R(3, 2)>>

\* the members of set, in the order of the list order
RECURSIVE Filter(_, _)
Filter(order, set) ==
    IF order = <<>> THEN <<>>
    ELSE IF Head(order) \in set THEN <<Head(order)>> \o Filter(Tail(order), set)
    ELSE Filter(Tail(order), set)

\* the Run (spectra .. scal), what the last operation returned or raised
\* (ret, err), the last operation and the number of operations so far (op,
\* nops); pckl is the content of the file save writes and runs the
\* dictionary load_runs returns; parse is the state of the opt=1 record
\* parser of reading.py
VARIABLES spectra, spectra_avail, ts, ts_avail, scal, ret, err, op, nops,
          pckl, runs, parse

runvars == <<spectra, spectra_avail, ts, ts_avail, scal, ret, err, op, nops,
             pckl, runs>>
vars == <<runvars, parse>>

\* no file written yet, no run loaded yet
NoFile == [name_run |-> ""]
NoRuns == <<>>

\* no record is being parsed
ParseIdle == [pc |-> "idle"]

\* the characters of the names of the spectrum files
NameChars(n) ==
    CASE n = "Str" -> <<"S", "t", "r">>
      [] n = "GWs" -> <<"G", "W", "s">>
      [] n = "GWh" -> <<"G", "W", "h">>
      [] n = "GWm" -> <<"G", "W", "m">>
      [] n = "helStr" -> <<"h", "e", "l", "S", "t", "r">>
      [] n = "helGWs" -> <<"h", "e", "l", "G", "W", "s">>
      [] n = "helGWh" -> <<"h", "e", "l", "G", "W", "h">>
      [] n = "helGWm" -> <<"h", "e", "l", "G", "W", "m">>
      [] n = "mag" -> <<"m", "a", "g">>
      [] n = "kin" -> <<"k", "i", "n">>
      [] n = "pot_u" -> <<"p", "o", "t", "_", "u">>

\* the characters of a key of the dictionary read_spectra_runs builds: a
\* file name, or 't_' + a file name
KeyChars(s, keys) ==
    IF \E n \in keys : s = "t_" \o n
    THEN <<"t", "_">> \o NameChars(CHOOSE n \in keys : s = "t_" \o n)
    ELSE NameChars(s)

\* 't_' in s
HasT_(s, keys) ==
    LET c == KeyChars(s, keys)
    IN  \E i \in 1..(Len(c) - 1) : c[i] = "t" /\ c[i + 1] = "_"

\* run.__init__: the lists of available spectra and time series
InitAvail(order, sp) ==
    LET names == {s \in DOMAIN sp : s # "k" /\ s # "k0"
                                     /\ ~HasT_(s, DOMAIN sp \ {"k", "k0"})}
    IN  Filter(order, names)
InitTsAvail(order, t) ==
    Filter(order, {s \in DOMAIN t : s # "it" /\ s # "t" /\ s # "dt"})

\* read_spectra_runs: the dictionary of k, k0 and, per file, S and t_S
SpectraDict(k, arr, tgrid) ==
    [key \in {"k", "k0"} \cup DOMAIN arr \cup {"t_" \o S : S \in DOMAIN arr} |->
        IF key = "k" THEN k
        ELSE IF key = "k0" THEN One
        ELSE IF key \in DOMAIN arr THEN arr[key]
        ELSE tgrid[CHOOSE S \in DOMAIN arr : key = "t_" \o S]]

\* read_ts: the dictionary of the columns named by legend.dat
TsDict(cols) == [key \in {"t"} \cup DOMAIN cols |-> IF key = "t" THEN TsT ELSE cols[key]]

NoRet == [E |-> "", EE |-> ""]

InitRun(k, arr, tgrid, cols) ==
    /\ spectra = SpectraDict(k, arr, tgrid)
    /\ spectra_avail = InitAvail(DerivOrder \o EnergyOrder \o <<OddName>>,
                                 SpectraDict(k, arr, tgrid))
    /\ ts = TsDict(cols)
    /\ ts_avail = InitTsAvail(TsOrder, TsDict(cols))
    /\ scal = <<>>
    /\ ret = NoRet
    /\ err = "none"
    /\ op = "init"
    /\ nops = 0
    /\ pckl = NoFile
    /\ runs = NoRuns
    /\ parse = ParseIdle

\* a run with at most MaxFiles stress / GW spectra and no energy diagnostics
InitDeriv ==
    \E k \in KGrids, v \in 1..2, sa \in SUBSET DerivNames :
        /\ Cardinality(sa) <= MaxFiles
        /\ InitRun(k, [S \in sa |-> DerivArr(S, v)], [S \in sa |-> DerivT(S, v)],
                   <<>>)

\* a run with the energy spectra and the energy time series only
InitEnergy ==
    \E sa \in SUBSET {"mag", "kin"}, ta \in SUBSET {"EEM", "EEK"} :
    \E arr \in [sa -> EnergyArrs], cols \in [ta -> EESeries] :
        /\ "kin" \in sa => arr["kin"] \in KinArrs
        /\ "EEK" \in ta => cols["EEK"] \in EEKSeries
        /\ InitRun(KGrid0, arr, [S \in sa |-> EnergyT], cols)

\* a run with any set of time-series columns and no spectra
InitTs ==
    \E ta \in SUBSET TsNames :
        InitRun(KGrid0, <<>>, <<>>, [n \in ta |-> TsFixed(n)])

\* a run with every spectrum and every column
InitFull ==
    \E k \in KGrids, v \in 1..2, e \in EnergyArrs :
        InitRun(k,
                [S \in DerivNames \cup {"mag", "kin"} |->
                    IF S \in DerivNames THEN DerivArr(S, v) ELSE e],
                [S \in DerivNames \cup {"mag", "kin"} |->
                    IF S \in DerivNames THEN DerivT(S, v) ELSE EnergyT],
                [n \in TsNames |-> TsFixed(n)])

\* a run with the GW spectra and a spectrum file whose name contains 't_'
InitOdd ==
    \E k \in KGrids, v \in 1..2 :
        InitRun(k,
                [S \in {"GWs", "helGWs", OddName} |->
                    IF S = OddName THEN DerivArr("Str", v) ELSE DerivArr(S, v)],
                [S \in {"GWs", "helGWs", OddName} |-> DerivT("GWs", v)],
                <<>>)

Init == InitDeriv \/ InitEnergy \/ InitTs \/ InitFull \/ InitOdd
(***************************************************************************)
(* The operations of class run.  Each is a function of the run's fields,   *)
(* st = [spectra, spectra_avail, ts, ts_avail, scal, err], so that         *)
(* characterize_run can call the others in sequence.                       *)
(***************************************************************************)
\* np.meshgrid(t, k, indexing='ij')[1] followed by kij[np.where(kij == 0)] = 1.
KijPatched(k) == [j \in 1..Len(k) |-> IF k[j] = Zero THEN One ELSE k[j]]

\* Pi = sp/kij**2*tij**2/36 and Pi[np.where(kij == 0)] = 0., where kij is the
\* grid the line before has already patched
PiArray(sp, k, t) ==
    LET kij == KijPatched(k)
    IN  [i \in 1..Len(t) |-> [j \in 1..Len(k) |->
            IF kij[j] = Zero THEN Zero
            ELSE RDiv(RMul(RDiv(sp[i][j], RSq(kij[j])), RSq(t[i])), RInt(36))]]

\* helPi = sphel/kij**2 and helPi[np.where(kij == 0)] = 0.
HelPiArray(sphel, k, t) ==
    LET kij == KijPatched(k)
    IN  [i \in 1..Len(t) |-> [j \in 1..Len(k) |->
            IF kij[j] = Zero THEN Zero ELSE RDiv(sphel[i][j], RSq(kij[j]))]]

\* mutant: the helPi block outside the test of Str
update_Pi_unnested(st) ==
    LET k == st.spectra["k"]
        s1 == IF InList("Str", st.spectra_avail)
              THEN [st EXCEPT !.spectra =
                        Update(Update(st.spectra, "Pi",
                                      PiArray(st.spectra["Str"], k,
                                              st.spectra["t_Str"])),
                               "t_Pi", st.spectra["t_Str"]),
                              !.spectra_avail = AppendNew(st.spectra_avail, "Pi")]
              ELSE st
    IN  IF InList("helStr", s1.spectra_avail)
        THEN [s1 EXCEPT !.spectra =
                  Update(Update(s1.spectra, "helPi",
                                HelPiArray(s1.spectra["helStr"], k,
                                           s1.spectra["t_helStr"])),
                         "t_helPi", s1.spectra["t_helStr"]),
                        !.spectra_avail = AppendNew(s1.spectra_avail, "helPi")]
        ELSE s1

update_Pi(st) ==
    IF ~InList("Str", st.spectra_avail) THEN st
    ELSE
        LET k == st.spectra["k"]
            t == st.spectra["t_Str"]
            s1 == Update(Update(st.spectra, "Pi", PiArray(st.spectra["Str"], k, t)),
                         "t_Pi", t)
            a1 == AppendNew(st.spectra_avail, "Pi")
        IN  IF ~InList("helStr", a1)
            THEN [st EXCEPT !.spectra = s1, !.spectra_avail = a1]
            ELSE
                LET th == s1["t_helStr"]
                    s2 == Update(Update(s1, "helPi",
                                        HelPiArray(s1["helStr"], k, th)),
                                 "t_helPi", th)
                IN  [st EXCEPT !.spectra = s2,
                               !.spectra_avail = AppendNew(a1, "helPi")]

\* elementwise arithmetic on [time, wavenumber] arrays
Map2(sp, F(_, _, _)) ==
    [i \in 1..Len(sp) |-> [j \in 1..Len(sp[i]) |-> F(sp[i][j], i, j)]]

\* EGW = sp1/6
EGWArray(sp1) == LET F(x, i, j) == RDiv(x, RInt(6)) IN Map2(sp1, F)
\* kij*EGW
TimesK(EGW, k) == LET F(x, i, j) == RMul(k[j], x) IN Map2(EGW, F)
\* EGW += sp2/tij**2/6
AddGWh(EGW, sp2, t) ==
    LET F(x, i, j) == RAdd(x, RDiv(RDiv(sp2[i][j], RSq(t[i])), RInt(6)))
    IN  Map2(EGW, F)
\* mutant: the GWm term added instead of subtracted
SubGWm_added(EGW, sp3, t) ==
    LET F(x, i, j) == RAdd(x, RDiv(RDiv(sp3[i][j], t[i]), RInt(3)))
    IN  Map2(EGW, F)

\* EGW -= sp3/tij/3
SubGWm(EGW, sp3, t) ==
    LET F(x, i, j) == RSub(x, RDiv(RDiv(sp3[i][j], t[i]), RInt(3)))
    IN  Map2(EGW, F)

\* The array object named EGW once update_EGW has run.  spectra['EGW'] holds
\* this object, so the in-place += and -= of the GWh and GWm terms act on
\* the stored entry as well.
EGWObject(EGW0, sp, avail, pre, t) ==
    LET e1 == IF InList(pre \o "GWh", avail)
              THEN AddGWh(EGW0, sp[pre \o "GWh"], t) ELSE EGW0
    IN  IF InList(pre \o "GWm", avail)
        THEN SubGWm(e1, sp[pre \o "GWm"], t) ELSE e1

\* one block of update_EGW: pre = "" (GWs ...) or pre = "hel" (helGWs ...)
GWBlock(st, pre) ==
    IF ~InList(pre \o "GWs", st.spectra_avail) THEN st
    ELSE
        LET k == st.spectra["k"]
            t == st.spectra["t_" \o pre \o "GWs"]
            EGW0 == EGWArray(st.spectra[pre \o "GWs"])
            OmGW == TimesK(EGW0, k)
            a1 == AppendNew(AppendNew(st.spectra_avail, pre \o "EGW"),
                            pre \o "OmGW")
            extra == InList(pre \o "GWh", a1) \/ InList(pre \o "GWm", a1)
            EGW == EGWObject(EGW0, st.spectra, a1, pre, t)
            s1 == Update(Update(Update(Update(st.spectra,
                      pre \o "EGW", EGW), pre \o "OmGW", OmGW),
                      "t_" \o pre \o "EGW", t), "t_" \o pre \o "OmGW", t)
        IN  IF ~extra THEN [st EXCEPT !.spectra = s1, !.spectra_avail = a1]
            ELSE
                LET s2 == Update(Update(Update(Update(s1,
                              pre \o "EGW_tot", EGW),
                              pre \o "OmGW_tot", TimesK(EGW, k)),
                              "t_" \o pre \o "EGW_tot", t),
                              "t_" \o pre \o "OmGW_tot", t)
                IN  [st EXCEPT !.spectra = s2,
                               !.spectra_avail =
                                   AppendNew(AppendNew(a1, pre \o "EGW_tot"),
                                             pre \o "OmGW_tot")]

update_EGW(st) == GWBlock(GWBlock(st, ""), "hel")

\* spectra.compute_kpeak(k, E): the wavenumber at the maximum of E and the
\* maximum
compute_kpeak(k, E) == <<k[ArgMax(E)], E[ArgMax(E)]>>

\* mutant: the slice drops the last bin instead of bin 0
ReducedE_lastcut(sp, m) ==
    [i \in 1..Len(sp[m]) |-> SubSeq(sp[m][i], 1, Len(sp[m][i]) - 1)]

\* the wavenumbers and the rows compute_mean_max_spectra reduces
ReducedK(sp) == Slice1(sp["k"])
ReducedE(sp, m) == Slice1Cols(sp[m])

RECURSIVE MeanMaxLoop(_, _)
MeanMaxLoop(sp, names) ==
    IF names = <<>> THEN sp
    ELSE
        LET m == Head(names)
            k == ReducedK(sp)
            Nt == Len(sp["t_" \o m])
            E == ReducedE(sp, m)
            kpeak == [i \in 1..Nt |-> compute_kpeak(k, E[i])[1]]
            Emax == [i \in 1..Nt |-> compute_kpeak(k, E[i])[2]]
            Emean == [i \in 1..Nt |-> Trapz(E[i], k)]
        IN  MeanMaxLoop(Update(Update(Update(sp, m \o "_kpeak", kpeak),
                                      m \o "_max", Emax),
                               m \o "_mean", Emean),
                        Tail(names))

compute_mean_max_spectra(st) ==
    [st EXCEPT !.spectra = MeanMaxLoop(st.spectra, st.spectra_avail)]

\* mutant: the comparison reversed
SpectralMeanWins_reversed(mean, max) == RLt(mean, max)

\* mean[indmax] > max
SpectralMeanWins(mean, max) == RGt(mean, max)

\* the index at which check_max_spectra_ts reads the interpolated peak
\* series: indmax, which np.argmax(mean) has overwritten by then
InterpIndex(indmaxTs, indmaxMean) == indmaxMean

\* check_max_spectra_ts(E, EE): [err, max, tmax, kf].  A spectrum that is
\* available but not yet reduced makes spectra.get(E + '_mean') None, and
\* None[indmax] raises TypeError.
check_max_spectra_ts(st, E, EE) ==
    LET t == st.ts["t"]
        hasTs == InList(EE, st.ts_avail)
        indTs == IF hasTs THEN ArgMax(st.ts[EE]) ELSE 1
        max1 == IF hasTs THEN st.ts[EE][indTs] ELSE Zero
        tmax1 == t[indTs]
    IN  IF ~InList(E, st.spectra_avail)
        THEN [err |-> "none", max |-> max1, tmax |-> tmax1, kf |-> Zero]
        ELSE IF (E \o "_mean") \notin DOMAIN st.spectra
        THEN [err |-> "TypeError", max |-> max1, tmax |-> tmax1, kf |-> Zero]
        ELSE
            LET mean == st.spectra[E \o "_mean"]
                tE == st.spectra["t_" \o E]
                indmax == ArgMax(mean)
                kpeak == st.spectra[E \o "_kpeak"]
                ind == InterpIndex(indTs, indmax)
            IN  IF SpectralMeanWins(mean[indmax], max1)
                THEN [err |-> "none", max |-> mean[indmax], tmax |-> tE[indmax],
                      kf |-> kpeak[indmax]]
                ELSE IF ind > Len(t)
                THEN [err |-> "IndexError", max |-> max1, tmax |-> tmax1,
                      kf |-> Zero]
                ELSE [err |-> "none", max |-> max1, tmax |-> tmax1,
                      kf |-> Interp(t, tE, kpeak)[ind]]

\* rho = EEK**0; rho[good] = 2*EEK[good]/urms[good]**2
RhoArray(EEK, urms) ==
    [i \in 1..Len(EEK) |->
        IF urms[i] # Zero THEN RDiv(RMul(RInt(2), EEK[i]), RSq(urms[i])) ELSE One]

\* mutant: rho = EEK without a copy, so that rho[good] = ... writes into the
\* EEK series
compute_rho_alias(st) ==
    IF InList("urms", st.ts_avail) /\ InList("EEK", st.ts_avail)
    THEN LET rho == RhoArray(st.ts["EEK"], st.ts["urms"])
         IN  [st EXCEPT !.ts = Update(Update(st.ts, "rho", rho), "EEK",
                                      [i \in 1..Len(rho) |->
                                          IF st.ts["urms"][i] # Zero THEN rho[i]
                                          ELSE st.ts["EEK"][i]]),
                        !.ts_avail = Append(st.ts_avail, "rho")]
    ELSE st

\* mutant: urms is taken out of the time series once rho is computed
compute_rho_pop(st) ==
    IF InList("urms", st.ts_avail) /\ InList("EEK", st.ts_avail)
    THEN LET t1 == Update(st.ts, "rho", RhoArray(st.ts["EEK"], st.ts["urms"]))
         IN  [st EXCEPT !.ts = [key \in DOMAIN t1 \ {"urms"} |-> t1[key]],
                        !.ts_avail = Append(SelectSeq(st.ts_avail,
                                                      LAMBDA n : n # "urms"),
                                            "rho")]
    ELSE st

compute_rho(st) ==
    IF InList("urms", st.ts_avail) /\ InList("EEK", st.ts_avail)
    THEN [st EXCEPT !.ts = Update(st.ts, "rho", RhoArray(st.ts["EEK"], st.ts["urms"])),
                    !.ts_avail = Append(st.ts_avail, "rho")]
    ELSE st

\* mutant: the square without the factor 1/2
HalfSquare_nohalf(a) == [i \in 1..Len(a) |-> RSq(a[i])]

\* umax**2/2, bmax**2/2
HalfSquare(a) == [i \in 1..Len(a) |-> RDiv(RSq(a[i]), RInt(2))]
ArrAdd(a, b) == [i \in 1..Len(a) |-> RAdd(a[i], b[i])]

compute_total_max_energies(st) ==
    LET s1 == IF InList("EEM", st.ts_avail) /\ InList("EEK", st.ts_avail)
              THEN [st EXCEPT !.ts = Update(st.ts, "EEtot",
                                            ArrAdd(st.ts["EEK"], st.ts["EEM"])),
                              !.ts_avail = Append(st.ts_avail, "EEtot")]
              ELSE st
        s2 == IF InList("umax", s1.ts_avail)
              THEN [s1 EXCEPT !.ts = Update(s1.ts, "EEKmax", HalfSquare(s1.ts["umax"])),
                              !.ts_avail = Append(s1.ts_avail, "EEKmax")]
              ELSE s1
    IN  IF ~InList("bmax", s2.ts_avail) THEN s2
        ELSE
            LET EEMmax == HalfSquare(s2.ts["bmax"])
                s3 == [s2 EXCEPT !.ts = Update(s2.ts, "EEMmax", EEMmax),
                                 !.ts_avail = Append(s2.ts_avail, "EEMmax")]
            IN  IF ~InList("umax", s3.ts_avail) THEN s3
                ELSE [s3 EXCEPT !.ts = Update(s3.ts, "EEtotmax",
                                              ArrAdd(EEMmax, s3.ts["EEKmax"])),
                                !.ts_avail = Append(s3.ts_avail, "EEtotmax")]

\* the sentinel 1e10 of the eddy turnover time
Sentinel == [sentinel |-> "1e10"]

\* 1/kf/v for kf > 0 and v = sqrt(q) > 0, as the surd sqrt(1/(kf^2 q))
InvKfV(kf, v) == Sqrt(RDiv(One, RMul(RSq(kf), v.rad)))

\* mutant: the test of kf dropped
EddyTime_nokf(kf, v) ==
    IF v # Sqrt(Zero) THEN InvKfV(kf, v) ELSE Sentinel

\* if kf != 0 and v != 0: te = 1/kf/v, else: te = 1e10
EddyTime(kf, v) ==
    IF kf # Zero /\ v # Sqrt(Zero) THEN InvKfV(kf, v) ELSE Sentinel

\* mutant: ties go to the magnetic channel
MagneticDominates_ties(OmMmax, OmKmax) == RLe(OmKmax, OmMmax)

\* OmMmax > OmKmax
MagneticDominates(OmMmax, OmKmax) == RGt(OmMmax, OmKmax)

\* the assignments of characterize_run after the two check_max_spectra_ts
Classify(sc, M, K) ==
    LET vA == Sqrt(RMul(R(3, 2), M.max))
        vK == Sqrt(RMul(RInt(2), K.max))
        teM == EddyTime(M.kf, vA)
        teK == EddyTime(K.kf, vK)
        m == MagneticDominates(M.max, K.max)
    IN  [a \in {"OmMmax", "tmaxM", "kfM", "OmKmax", "tmaxK", "kfK", "vA", "vK",
                "teM", "teK", "turb", "tini", "kf", "v", "te", "Ommax"} |->
            CASE a = "OmMmax" -> M.max [] a = "tmaxM" -> M.tmax [] a = "kfM" -> M.kf
              [] a = "OmKmax" -> K.max [] a = "tmaxK" -> K.tmax [] a = "kfK" -> K.kf
              [] a = "vA" -> vA [] a = "vK" -> vK
              [] a = "teM" -> teM [] a = "teK" -> teK
              [] a = "turb" -> IF m THEN "m" ELSE "k"
              [] a = "tini" -> IF m THEN M.tmax ELSE K.tmax
              [] a = "kf" -> IF m THEN M.kf ELSE K.kf
              [] a = "v" -> IF m THEN vA ELSE vK
              [] a = "te" -> IF m THEN teM ELSE teK
              [] a = "Ommax" -> RMax(M.max, K.max)] @@ sc

\* mutant: the reduction runs before the derivation
characterize_run_reduce_first(st) ==
    LET s3 == update_EGW(update_Pi(compute_mean_max_spectra(st)))
        sc0 == Update(Update(s3.scal, "OmMmax", Zero), "OmKmax", Zero)
        M == check_max_spectra_ts(s3, "mag", "EEM")
        K == check_max_spectra_ts(s3, "kin", "EEK")
    IN  IF M.err # "none" THEN [s3 EXCEPT !.scal = sc0, !.err = M.err]
        ELSE IF K.err # "none"
        THEN [s3 EXCEPT !.scal = Update(Update(Update(sc0, "OmMmax", M.max),
                                               "tmaxM", M.tmax), "kfM", M.kf),
                        !.err = K.err]
        ELSE compute_total_max_energies(compute_rho(
                 [s3 EXCEPT !.scal = Classify(sc0, M, K)]))

characterize_run(st) ==
    LET s3 == compute_mean_max_spectra(update_EGW(update_Pi(st)))
        sc0 == Update(Update(s3.scal, "OmMmax", Zero), "OmKmax", Zero)
        M == check_max_spectra_ts(s3, "mag", "EEM")
        K == check_max_spectra_ts(s3, "kin", "EEK")
    IN  IF M.err # "none" THEN [s3 EXCEPT !.scal = sc0, !.err = M.err]
        ELSE IF K.err # "none"
        THEN [s3 EXCEPT !.scal = Update(Update(Update(sc0, "OmMmax", M.max),
                                               "tmaxM", M.tmax), "kfM", M.kf),
                        !.err = K.err]
        ELSE compute_total_max_energies(compute_rho(
                 [s3 EXCEPT !.scal = Classify(sc0, M, K)]))

(***************************************************************************)
(* The time-windowed reduction.  spectra.min_max_stat is the reduction of  *)
(* the statistical engine: over the rows indt .. end, the minimum, the     *)
(* maximum and the arithmetic average at each wavenumber, and in helical   *)
(* mode the minimum and maximum of the positive and of the negative        *)
(* contributions.                                                          *)
(***************************************************************************)
\* the rows indt .. end (indt counts from 0)
Window(E, indt) == SubSeq(E, indt + 1, Len(E))
MinOf(S) == CHOOSE x \in S : \A y \in S : RLe(x, y)
MaxOf(S) == CHOOSE x \in S : \A y \in S : RLe(y, x)
Column(W, j) == {W[i][j] : i \in 1..Len(W)}
RECURSIVE ColumnSum(_, _, _)
ColumnSum(W, j, n) == IF n = 0 THEN Zero ELSE RAdd(ColumnSum(W, j, n - 1), W[n][j])
\* the positive and the negative contributions of a signed spectrum
PosPart(W) == [i \in 1..Len(W) |-> [j \in 1..Len(W[i]) |-> RMax(W[i][j], Zero)]]
NegPart(W) ==
    [i \in 1..Len(W) |-> [j \in 1..Len(W[i]) |->
        IF RLt(W[i][j], Zero) THEN W[i][j] ELSE Zero]]
MinOverTime(W, k) == [j \in 1..Len(k) |-> MinOf(Column(W, j))]
MaxOverTime(W, k) == [j \in 1..Len(k) |-> MaxOf(Column(W, j))]
MeanOverTime(W, k) == [j \in 1..Len(k) |-> RDiv(ColumnSum(W, j, Len(W)), RInt(Len(W)))]

spectra_min_max_stat(t, k, E, indt, hel) ==
    LET W == Window(E, indt)
    IN  IF hel
        THEN [min_sp_pos |-> MinOverTime(PosPart(W), k),
              min_sp_neg |-> MinOverTime(NegPart(W), k),
              max_sp_pos |-> MaxOverTime(PosPart(W), k),
              max_sp_neg |-> MaxOverTime(NegPart(W), k),
              stat_sp |-> MeanOverTime(W, k)]
        ELSE [min_sp |-> MinOverTime(W, k), max_sp |-> MaxOverTime(W, k),
              stat_sp |-> MeanOverTime(W, k)]

\* mutant: the combined minimum taken as the maximum of the two branches
CombineMin_max(a, b) == [j \in 1..Len(a) |-> RMax(a[j], b[j])]

\* np.minimum(min_sp_pos, min_sp_neg), np.maximum(max_sp_pos, max_sp_neg)
CombineMin(a, b) == [j \in 1..Len(a) |-> IF RLt(b[j], a[j]) THEN b[j] ELSE a[j]]
CombineMax(a, b) == [j \in 1..Len(a) |-> RMax(a[j], b[j])]

\* E = self.spectra.get(sp)[:, 1:] and k = self.spectra.get('k')[1:]
StatE(spec, sp) == Slice1Cols(spec[sp])
StatK(spec) == Slice1(spec["k"])

min_max_stat(st, sp, indt, hel) ==
    IF ~InList(sp, st.spectra_avail) THEN st
    ELSE
        LET t == st.spectra["t_" \o sp]
            E == StatE(st.spectra, sp)
            k == StatK(st.spectra)
            r == spectra_min_max_stat(t, k, E, indt, hel)
        IN  IF hel
            THEN [st EXCEPT !.spectra =
                     Update(Update(Update(Update(Update(Update(Update(st.spectra,
                         sp \o "_pos_min_sp", r.min_sp_pos),
                         sp \o "_neg_min_sp", r.min_sp_neg),
                         sp \o "_pos_max_sp", r.max_sp_pos),
                         sp \o "_neg_max_sp", r.max_sp_neg),
                         sp \o "_min_sp", CombineMin(r.min_sp_pos, r.min_sp_neg)),
                         sp \o "_max_sp", CombineMax(r.max_sp_pos, r.max_sp_neg)),
                         sp \o "_stat_sp", r.stat_sp)]
            ELSE [st EXCEPT !.spectra =
                     Update(Update(Update(st.spectra,
                         sp \o "_min_sp", r.min_sp),
                         sp \o "_max_sp", r.max_sp),
                         sp \o "_stat_sp", r.stat_sp)]

(***************************************************************************)
(* save and load_runs.  pickle.dump writes the attributes of the instance, *)
(* a dictionary as its items; pickle.load rebuilds the instance from them  *)
(* without calling run.__init__.                                           *)
(***************************************************************************)
RunName == "A"

\* the items of a dictionary, and the dictionary of a set of items
Items(d) == {<<key, d[key]>> : key \in DOMAIN d}
FromItems(items) ==
    [key \in {it[1] : it \in items} |-> (CHOOSE it \in items : it[1] = key)[2]]

\* mutant: the classifier scalars are not written
Pickle_noscalars(st) ==
    [name_run |-> RunName,
     spectra |-> Items(st.spectra),
     spectra_avail |-> st.spectra_avail,
     ts |-> Items(st.ts),
     ts_avail |-> st.ts_avail,
     scalars |-> {}]

\* pickle.dump(self, f)
Pickle(st) ==
    [name_run |-> RunName,
     spectra |-> Items(st.spectra),
     spectra_avail |-> st.spectra_avail,
     ts |-> Items(st.ts),
     ts_avail |-> st.ts_avail,
     scalars |-> Items(st.scal)]

\* pickle.load(f)
Unpickle(file) ==
    [name_run |-> file.name_run,
     spectra |-> FromItems(file.spectra),
     spectra_avail |-> file.spectra_avail,
     ts |-> FromItems(file.ts),
     ts_avail |-> file.ts_avail,
     scal |-> FromItems(file.scalars)]

\* runs.update({i:run_var})
load_runs(file) == (RunName :> Unpickle(file))

(***************************************************************************)
(* The state machine: an ingested Run on which the caller invokes the      *)
(* per-run operations in any order.  An operation that raises leaves what  *)
(* it had written and ends the run's processing.                           *)
(***************************************************************************)
St == [spectra |-> spectra, spectra_avail |-> spectra_avail, ts |-> ts,
       ts_avail |-> ts_avail, scal |-> scal, err |-> err]

Invoke(name, new) ==
    /\ err = "none"
    /\ nops < MaxOps
    /\ spectra' = new.spectra
    /\ spectra_avail' = new.spectra_avail
    /\ ts' = new.ts
    /\ ts_avail' = new.ts_avail
    /\ scal' = new.scal
    /\ err' = new.err
    /\ op' = name
    /\ nops' = nops + 1
    /\ UNCHANGED <<pckl, runs, parse>>

DoUpdatePi == Invoke("update_Pi", update_Pi(St)) /\ UNCHANGED ret
DoUpdateEGW == Invoke("update_EGW", update_EGW(St)) /\ UNCHANGED ret
DoMeanMax ==
    Invoke("compute_mean_max_spectra", compute_mean_max_spectra(St)) /\ UNCHANGED ret
DoRho == Invoke("compute_rho", compute_rho(St)) /\ UNCHANGED ret
DoTotal ==
    Invoke("compute_total_max_energies", compute_total_max_energies(St))
    /\ UNCHANGED ret
DoCharacterize == Invoke("characterize_run", characterize_run(St)) /\ UNCHANGED ret
DoCheckMax ==
    \E c \in {<<"mag", "EEM">>, <<"kin", "EEK">>} :
        LET r == check_max_spectra_ts(St, c[1], c[2])
        IN  /\ Invoke("check_max_spectra_ts", [St EXCEPT !.err = r.err])
            /\ ret' = [E |-> c[1], EE |-> c[2], max |-> r.max, tmax |-> r.tmax,
                       kf |-> r.kf]

\* the spectra and the starting indices min_max_stat is called with
StatNames == {"GWs", "helGWs"}
StatIndt == {0, 1}

DoMinMaxStat ==
    \E sp \in StatNames, indt \in StatIndt, hel \in BOOLEAN :
        /\ Invoke("min_max_stat", min_max_stat(St, sp, indt, hel))
        /\ ret' = [sp |-> sp, indt |-> indt, hel |-> hel]

\* save(dir0) writes dir0 + dir_run + name_run.pckl, the file load_runs reads
DoSave ==
    /\ err = "none"
    /\ nops < MaxOps
    /\ pckl' = Pickle(St)
    /\ op' = "save"
    /\ nops' = nops + 1
    /\ UNCHANGED <<spectra, spectra_avail, ts, ts_avail, scal, ret, err, runs, parse>>

\* load_runs, once the file exists; it is a function of the module and
\* leaves the Run in memory alone
DoLoad ==
    /\ err = "none"
    /\ pckl # NoFile
    /\ runs' = load_runs(pckl)
    /\ op' = "load_runs"
    /\ UNCHANGED <<spectra, spectra_avail, ts, ts_avail, scal, ret, err, nops,
                   pckl, parse>>

Next ==
    \/ DoUpdatePi
    \/ DoUpdateEGW
    \/ DoMeanMax
    \/ DoCheckMax
    \/ DoRho
    \/ DoTotal
    \/ DoCharacterize

Spec == Init /\ [][Next]_vars

\* the same Run with the time-windowed reduction, save and load_runs among
\* the operations, from the runs with every input, with time series only,
\* with GW spectra only and with helical spectra only
InitHel ==
    \E k \in KGrids, v \in 1..2 :
        InitRun(k, [S \in {"helStr", "helGWs", "helGWh"} |-> DerivArr(S, v)],
                [S \in {"helStr", "helGWs", "helGWh"} |-> DerivT(S, v)], <<>>)

InitOps == InitFull \/ InitTs \/ InitOdd \/ InitHel

NextOps ==
    \/ DoUpdatePi
    \/ DoUpdateEGW
    \/ DoMeanMax
    \/ DoCheckMax
    \/ DoRho
    \/ DoTotal
    \/ DoCharacterize
    \/ DoMinMaxStat
    \/ DoSave
    \/ DoLoad

SpecOps == InitOps /\ [][NextOps]_vars

(***************************************************************************)
(* The opt=1 record parser of read_spectrum and read_ts.  A token is the   *)
(* sequence of its characters; float() is modelled by the decimal value    *)
(* it reads, sign * mant * 10^exp with mant free of trailing zeros.        *)
(***************************************************************************)
\* largest number of tokens of one record
MaxTokens == 2

\* "1.23-114", "-1.23-114", "1.23E-05", "-1.23E-05", "1.23E+05",
\* "-1.23E+05", "-1.23"
Tok1 == <<"1", ".", "2", "3", "-", "1", "1", "4">>
Tok2 == <<"-", "1", ".", "2", "3", "-", "1", "1", "4">>
Tok3 == <<"1", ".", "2", "3", "E", "-", "0", "5">>
Tok4 == <<"-", "1", ".", "2", "3", "E", "-", "0", "5">>
Tok5 == <<"1", ".", "2", "3", "E", "+", "0", "5">>
Tok6 == <<"-", "1", ".", "2", "3", "E", "+", "0", "5">>
Tok7 == <<"-", "1", ".", "2", "3">>
Tokens == {Tok1, Tok2, Tok3, Tok4, Tok5, Tok6, Tok7}

Digits == {"0", "1", "2", "3", "4", "5", "6", "7", "8", "9"}
DigitVal(c) ==
    CASE c = "0" -> 0 [] c = "1" -> 1 [] c = "2" -> 2 [] c = "3" -> 3
      [] c = "4" -> 4 [] c = "5" -> 5 [] c = "6" -> 6 [] c = "7" -> 7
      [] c = "8" -> 8 [] c = "9" -> 9

\* s.index(c) + 1, or 0 when c is not in s
IndexOf(s, c) ==
    IF \E i \in 1..Len(s) : s[i] = c
    THEN CHOOSE i \in 1..Len(s) : s[i] = c /\ \A j \in 1..(i - 1) : s[j] # c
    ELSE 0
Has(s, c) == IndexOf(s, c) # 0

RECURSIVE DigitsValue(_)
DigitsValue(s) ==
    IF s = <<>> THEN 0 ELSE 10 * DigitsValue(SubSeq(s, 1, Len(s) - 1)) + DigitVal(s[Len(s)])
AllDigits(s) == \A i \in 1..Len(s) : s[i] \in Digits

RECURSIVE StripZeros(_, _)
StripZeros(m, e) ==
    IF m = 0 THEN <<0, 0>>
    ELSE IF m % 10 = 0 THEN StripZeros(m \div 10, e + 1) ELSE <<m, e>>

\* float(s): [ok, sign, mant, exp]; ok = FALSE is a ValueError
NotANumber == [ok |-> FALSE, sign |-> 0, mant |-> 0, exp |-> 0]
Float(s) ==
    LET signed == s # <<>> /\ s[1] \in {"-", "+"}
        body == IF signed THEN Tail(s) ELSE s
        e == IF Has(body, "E") THEN IndexOf(body, "E") ELSE IndexOf(body, "e")
        mantStr == IF e = 0 THEN body ELSE SubSeq(body, 1, e - 1)
        expStr == IF e = 0 THEN <<>> ELSE SubSeq(body, e + 1, Len(body))
        expSigned == expStr # <<>> /\ expStr[1] \in {"-", "+"}
        expDigits == IF expSigned THEN Tail(expStr) ELSE expStr
        dot == IndexOf(mantStr, ".")
        intPart == IF dot = 0 THEN mantStr ELSE SubSeq(mantStr, 1, dot - 1)
        fracPart == IF dot = 0 THEN <<>> ELSE SubSeq(mantStr, dot + 1, Len(mantStr))
        ok == /\ AllDigits(intPart) /\ AllDigits(fracPart)
              /\ intPart \o fracPart # <<>>
              /\ AllDigits(expDigits)
              /\ e # 0 => expDigits # <<>>
        expo == (IF expSigned /\ expStr[1] = "-" THEN -1 ELSE 1) * DigitsValue(expDigits)
        me == StripZeros(DigitsValue(intPart \o fracPart), expo - Len(fracPart))
    IN  IF ~ok THEN NotANumber
        ELSE [ok |-> TRUE,
              sign |-> IF me[1] = 0 THEN 0 ELSE IF signed /\ s[1] = "-" THEN -1 ELSE 1,
              mant |-> me[1], exp |-> me[2]]

\* s0 with 'E' put before its first '-' unless an 'E' is already there:
\* ind = s0.index('-') - 1; s0[:ind + 1] + 'E' + s0[ind + 1:]
InsertE(s0) ==
    LET p == IndexOf(s0, "-")
        before == IF p = 1 THEN s0[Len(s0)] ELSE s0[p - 1]
    IN  IF before # "E"
        THEN SubSeq(s0, 1, p - 1) \o <<"E">> \o SubSeq(s0, p, Len(s0))
        ELSE s0

\* the flag neg after the test of s[0]
NegAfter(neg, s) == neg \/ s[1] = "-"
Unsigned(s) == IF s[1] = "-" THEN Tail(s) ELSE s

\* one pass of the loop of read_spectrum over a token
RewriteSpectrumToken(neg, s) ==
    LET s0 == Unsigned(s)
    IN  IF Has(s0, "-")
        THEN IF NegAfter(neg, s) THEN <<"-">> \o InsertE(s0) ELSE InsertE(s0)
        ELSE s0

\* one pass of the loop of read_ts over a token
RewriteTsToken(neg, s) ==
    LET s0 == Unsigned(s)
        s2 == IF Has(s0, "-") THEN InsertE(s0) ELSE s0
    IN  IF NegAfter(neg, s) THEN <<"-">> \o s2 ELSE s2

\* the loop over the tokens of a record; neg is set before the loop and
\* never reset in it
RECURSIVE RewriteLoop(_, _, _)
RewriteLoop(fn, neg, rec) ==
    IF rec = <<>> THEN <<>>
    ELSE <<IF fn = "read_spectrum" THEN RewriteSpectrumToken(neg, Head(rec))
           ELSE RewriteTsToken(neg, Head(rec))>>
         \o RewriteLoop(fn, NegAfter(neg, Head(rec)), Tail(rec))

RewriteRecord(fn, rec) == RewriteLoop(fn, FALSE, rec)

Records == UNION {[1..n -> Tokens] : n \in 1..MaxTokens}

\* the run variables while a record is parsed: no Run exists yet
NoRun ==
    /\ spectra = <<>> /\ spectra_avail = <<>> /\ ts = <<>> /\ ts_avail = <<>>
    /\ scal = <<>> /\ ret = NoRet /\ err = "none" /\ op = "init" /\ nops = 0
    /\ pckl = NoFile /\ runs = NoRuns

InitParse ==
    /\ NoRun
    /\ \E fn \in {"read_spectrum", "read_ts"}, rec \in Records :
           parse = [pc |-> "read", fn |-> fn, rec |-> rec]

\* the record is rewritten token by token
DoRewrite ==
    /\ parse.pc = "read"
    /\ parse' = [pc |-> "rewritten", fn |-> parse.fn, rec |-> parse.rec,
                 out |-> RewriteRecord(parse.fn, parse.rec)]
    /\ UNCHANGED runvars

\* the rewritten tokens are converted to floats
DoConvert ==
    /\ parse.pc = "rewritten"
    /\ parse' = [pc |-> "parsed", fn |-> parse.fn, rec |-> parse.rec,
                 out |-> parse.out,
                 val |-> [i \in 1..Len(parse.out) |-> Float(parse.out[i])]]
    /\ UNCHANGED runvars

NextParse ==
    \/ DoRewrite
    \/ DoConvert

SpecParse == InitParse /\ [][NextParse]_vars

(***************************************************************************)
(* read_spectrum and the loop of read_spectra_runs that stores what it     *)
(* returns.  A record is the sequence of its tokens, written in the file   *)
(* with single spaces between them; the file is read record by record.     *)
(***************************************************************************)
\* largest number of records of a file after the first one
MaxLines == 3

\* "1", "2", "10"
FileTokens == {<<"1">>, <<"2">>, <<"1", "0">>}
\* the records of a file: one token, or the two tokens "1 2" or "2 10"
FileLines ==
    {<<tok>> : tok \in FileTokens}
        \cup {<<(<<"1">>), (<<"2">>)>>, <<(<<"2">>), (<<"1", "0">>)>>}

\* power_krms.dat times k0, and k0 = 2 pi / L
ReadK0 == R(1, 2)
ReadK == <<Zero, ReadK0>>

\* len(line.strip()): the characters of the tokens and of the spaces between
RECURSIVE StrippedLen(_)
StrippedLen(line) ==
    IF line = <<>> THEN 0
    ELSE IF Len(line) = 1 THEN Len(line[1])
    ELSE Len(Head(line)) + 1 + StrippedLen(Tail(line))

\* len(content): content is the stripped string when opt = 0 and the list
\* of tokens when opt = 1
ContentLen(opt, line) == IF opt = 0 THEN StrippedLen(line) ELSE Len(line)

\* the list appended to specs: content.split(), or the rewritten tokens
SpecOf(opt, line) ==
    IF opt = 0 THEN line ELSE RewriteRecord("read_spectrum", line)

\* the value a float holds, as a rational
RECURSIVE Pow10(_)
Pow10(n) == IF n = 0 THEN 1 ELSE 10 * Pow10(n - 1)
FloatValue(f) ==
    IF f.exp >= 0 THEN RInt(f.sign * f.mant * Pow10(f.exp))
    ELSE R(f.sign * f.mant, Pow10(-f.exp))

\* np.shape(np.array(recs, dtype=object)) has two entries
Uniform(recs) ==
    recs # <<>> /\ \A i \in 1..Len(recs) : Len(recs[i]) = Len(recs[1])

\* a and b of one time sample; a list that is not rectangular counts one
\* record less and takes the width of its first record
SampleA(recs) == IF Uniform(recs) THEN Len(recs) ELSE Len(recs) - 1
SampleB(recs) == Len(recs[1])

\* float() of every token of a list of records, and of a record
FloatsOf(recs) ==
    [i \in 1..Len(recs) |-> [j \in 1..Len(recs[i]) |-> Float(recs[i][j])]]
FloatsOfLine(line) == [j \in 1..Len(line) |-> Float(line[j])]

\* sp0[cnt] = sp[l + 1][i][j] for i < a and j < b, with fl the floats of the
\* tokens
SampleRowOf(recs, a, b, fl) ==
    IF \E i \in 1..a : Len(recs[i]) < b
    THEN [err |-> "IndexError", row |-> <<>>]
    ELSE IF \E i \in 1..a : \E j \in 1..b : ~fl[i][j].ok
    THEN [err |-> "ValueError", row |-> <<>>]
    ELSE [err |-> "none",
          row |-> [c \in 1..(a * b) |->
                      FloatValue(fl[((c - 1) \div b) + 1][((c - 1) % b) + 1])]]

\* sp0 of one time sample: [err, row]
SampleRow(recs) ==
    IF recs = <<>> THEN [err |-> "IndexError", row |-> <<>>]
    ELSE SampleRowOf(recs, SampleA(recs), SampleB(recs), FloatsOf(recs))

\* np.array(times, dtype='double'): a string per sample when opt = 0, a list
\* of tokens per sample when opt = 1; fl holds the floats of the tokens
TimeOfFloats(opt, fl) ==
    IF opt = 0
    THEN IF Len(fl) = 1 /\ fl[1].ok
         THEN [err |-> "none", t |-> FloatValue(fl[1])]
         ELSE [err |-> "ValueError", t |-> Zero]
    ELSE IF \A j \in 1..Len(fl) : fl[j].ok
         THEN [err |-> "none", t |-> [j \in 1..Len(fl) |-> FloatValue(fl[j])]]
         ELSE [err |-> "ValueError", t |-> Zero]
TimeOf(opt, line) == TimeOfFloats(opt, FloatsOfLine(line))

\* the arrays returned, or the first error raised, given the rows and the
\* times of the samples
ReshapeOf(n, rows, tms) ==
    IF \E l \in 1..n : rows[l].err # "none"
    THEN [err |-> rows[CHOOSE l \in 1..n :
                          /\ rows[l].err # "none"
                          /\ \A m \in 1..(l - 1) : rows[m].err = "none"].err,
          times |-> <<>>, sps |-> <<>>]
    ELSE IF \E l \in 1..n : tms[l].err # "none"
    THEN [err |-> "ValueError", times |-> <<>>, sps |-> <<>>]
    ELSE [err |-> "none",
          times |-> [l \in 1..n |-> tms[l].t],
          sps |-> [l \in 1..n |-> rows[l].row]]

\* lines 279-311: [err, times, sps]
Reshape(opt, times, sp) ==
    ReshapeOf(Len(times),
              [l \in 1..Len(times) |-> SampleRow(sp[l + 1])],
              [l \in 1..Len(times) |-> TimeOf(opt, times[l])])

\* sps/k0
OverK0(sps, k0) ==
    [l \in 1..Len(sps) |-> [c \in 1..Len(sps[l]) |-> RDiv(sps[l][c], k0)]]

\* read_spectra_runs before its loop: the dictionary holds k and k0
InitRead ==
    /\ spectra = [key \in {"k", "k0"} |-> IF key = "k" THEN ReadK ELSE ReadK0]
    /\ spectra_avail = <<>> /\ ts = <<>> /\ ts_avail = <<>>
    /\ scal = <<>> /\ ret = NoRet /\ err = "none" /\ op = "init" /\ nops = 0
    /\ pckl = NoFile /\ runs = NoRuns
    /\ \E opt \in {0, 1} : parse = [pc |-> "open", opt |-> opt]

\* lines 227-237: the first record is the first time
ReadFirst ==
    /\ parse.pc = "open"
    /\ \E line \in FileLines :
           parse' = [pc |-> "reading", opt |-> parse.opt, file |-> <<line>>,
                     times |-> <<line>>, sp |-> << <<>> >>, specs |-> <<>>,
                     len_st |-> ContentLen(parse.opt, line)]
    /\ UNCHANGED runvars

\* one pass of the while loop on a record of the file
ReadRecord ==
    /\ parse.pc = "reading"
    /\ Len(parse.file) <= MaxLines
    /\ \E line \in FileLines :
           parse' =
               IF ContentLen(parse.opt, line) = parse.len_st
               THEN [parse EXCEPT !.file = Append(@, line),
                                  !.times = Append(@, line),
                                  !.sp = Append(@, parse.specs),
                                  !.specs = <<>>]
               ELSE [parse EXCEPT !.file = Append(@, line),
                                  !.specs = Append(@, SpecOf(parse.opt, line))]
    /\ UNCHANGED runvars

\* the last pass of the while loop, on the empty line of the end of the
\* file, and sp.append(specs)
ReadEOF ==
    /\ parse.pc = "reading"
    /\ parse' =
           IF 0 = parse.len_st
           THEN [parse EXCEPT !.pc = "grouped",
                              !.times = Append(@, <<>>),
                              !.sp = Append(Append(@, parse.specs), <<>>),
                              !.specs = <<>>]
           ELSE [parse EXCEPT !.pc = "grouped",
                              !.sp = Append(@, Append(parse.specs, <<>>)),
                              !.specs = Append(@, <<>>)]
    /\ UNCHANGED runvars

\* the reader once read_spectrum has returned r.times, r.sps or raised r.err
Returned_(opt, file, r) ==
    [pc |-> IF r.err = "none" THEN "returned" ELSE "raised",
     opt |-> opt, file |-> file, err |-> r.err, times |-> r.times, sps |-> r.sps]

\* lines 279-316: the arrays read_spectrum returns, or the error it raises
DoReshape ==
    /\ parse.pc = "grouped"
    /\ parse' = Returned_(parse.opt, parse.file,
                          Reshape(parse.opt, parse.times, parse.sp))
    /\ UNCHANGED runvars

\* read_spectra_runs lines 86-89 for the file power_GWs.dat
StoreSpectrum ==
    /\ parse.pc = "returned"
    /\ parse' = [parse EXCEPT !.pc = "stored"]
    /\ spectra' = Update(Update(spectra, "GWs", OverK0(parse.sps, spectra["k0"])),
                         "t_GWs", parse.times)
    /\ UNCHANGED <<spectra_avail, ts, ts_avail, scal, ret, err, op, nops,
                   pckl, runs>>

NextRead ==
    \/ ReadFirst
    \/ ReadRecord
    \/ ReadEOF
    \/ DoReshape
    \/ StoreSpectrum

SpecRead == InitRead /\ [][NextRead]_vars

(***************************************************************************)
(* Properties of the derivation engine.                                    *)
(***************************************************************************)
Avail(S) == InList(S, spectra_avail)
Rows(S) == 1..Len(spectra[S])
Cols == 1..Len(spectra["k"])

\* C1: after update_EGW on a Run where GWs is available, spectra['EGW'] is
\* GWs/6 and spectra['OmGW'] is k times spectra['EGW'], entry by entry,
\* whether or not GWh and GWm are available.
C1_EGWIsGWsOverSix ==
    (op = "update_EGW" /\ Avail("GWs")) =>
        \A i \in Rows("GWs") : \A j \in Cols :
            /\ spectra["EGW"][i][j] = RDiv(spectra["GWs"][i][j], RInt(6))
            /\ spectra["OmGW"][i][j] = RMul(spectra["k"][j], spectra["EGW"][i][j])

\* C2: after update_Pi on a Run where Str is available, Pi is
\* Str / k^2 * t_Str^2 / 36 at every bin with k # 0 and 0 at every bin with
\* k = 0.
C2_PiZeroAtZeroBin ==
    (op = "update_Pi" /\ Avail("Str")) =>
        \A i \in Rows("Str") : \A j \in Cols :
            spectra["Pi"][i][j] =
                IF spectra["k"][j] = Zero THEN Zero
                ELSE RDiv(RMul(RDiv(spectra["Str"][i][j], RSq(spectra["k"][j])),
                               RSq(spectra["t_Str"][i])), RInt(36))

(***************************************************************************)
(* Properties of check_max_spectra_ts, read on its returned triple.        *)
(***************************************************************************)
Returned == op = "check_max_spectra_ts" /\ err = "none"
TsMaxIndex(EE) == ArgMax(ts[EE])
MeanMaxIndex(E) == ArgMax(spectra[E \o "_mean"])
MeanMaxOf(E) == spectra[E \o "_mean"][MeanMaxIndex(E)]

\* C3: when the spectral-mean maximum does not exceed the time-series
\* maximum, the returned kf is E_kpeak interpolated onto ts['t'] and read
\* at the argmax index of the EE time series.
C3_KfAtTimeSeriesArgmax ==
    (/\ Returned
     /\ Avail(ret.E)
     /\ InList(ret.EE, ts_avail)
     /\ ~RGt(MeanMaxOf(ret.E), ts[ret.EE][TsMaxIndex(ret.EE)])) =>
        ret.kf = Interp(ts["t"], spectra["t_" \o ret.E],
                        spectra[ret.E \o "_kpeak"])[TsMaxIndex(ret.EE)]

\* the channel maximum and its time as C4 states them, for the candidates
\* that exist
LargerMax(E, EE) ==
    IF InList(EE, ts_avail) /\ Avail(E)
    THEN RMax(ts[EE][TsMaxIndex(EE)], MeanMaxOf(E))
    ELSE IF InList(EE, ts_avail) THEN ts[EE][TsMaxIndex(EE)]
    ELSE IF Avail(E) THEN MeanMaxOf(E)
    ELSE Zero
TimeOfLargerMax(E, EE) ==
    IF InList(EE, ts_avail) /\ Avail(E)
    THEN IF RGt(MeanMaxOf(E), ts[EE][TsMaxIndex(EE)])
         THEN spectra["t_" \o E][MeanMaxIndex(E)]
         ELSE ts["t"][TsMaxIndex(EE)]
    ELSE IF InList(EE, ts_avail) THEN ts["t"][TsMaxIndex(EE)]
    ELSE IF Avail(E) THEN spectra["t_" \o E][MeanMaxIndex(E)]
    ELSE ts["t"][1]

Characterized == op = "characterize_run" /\ err = "none"

\* the end-to-end scenario: EEM peaks at 0.3 at t = 1.1 and mag_mean is
\* never above 0.3
ScenarioEEM ==
    /\ InList("EEM", ts_avail)
    /\ ts["EEM"][TsMaxIndex("EEM")] = R(3, 10)
    /\ ts["t"][TsMaxIndex("EEM")] = R(11, 10)
    /\ Avail("mag") => RLe(MeanMaxOf("mag"), R(3, 10))

C5_DominantChannel ==
    Characterized =>
        /\ scal["turb"] = (IF RGt(scal["OmMmax"], scal["OmKmax"]) THEN "m" ELSE "k")
        /\ scal["turb"] = "m" =>
            /\ scal["tini"] = scal["tmaxM"] /\ scal["kf"] = scal["kfM"]
            /\ scal["v"] = scal["vA"] /\ scal["te"] = scal["teM"]
        /\ scal["turb"] = "k" =>
            /\ scal["tini"] = scal["tmaxK"] /\ scal["kf"] = scal["kfK"]
            /\ scal["v"] = scal["vK"] /\ scal["te"] = scal["teK"]
        /\ RLe(scal["OmMmax"], scal["Ommax"]) /\ RLe(scal["OmKmax"], scal["Ommax"])
        /\ scal["Ommax"] \in {scal["OmMmax"], scal["OmKmax"]}

\* the tie: equal, nonzero maxima classify as kinetic
C5_Witness ==
    /\ Characterized
    /\ scal["OmMmax"] = scal["OmKmax"]
    /\ scal["OmMmax"] # Zero
    /\ scal["tmaxM"] # scal["tmaxK"]
    /\ scal["turb"] = "k"

\* te = 1/(kf*v): te > 0 and (te * kf)^2 * v^2 = 1
IsInverseOfProduct(te, kf, v) ==
    /\ DOMAIN te = {"rad"}
    /\ RMul(RMul(te.rad, RSq(kf)), v.rad) = One

\* C6: after characterize_run, teM is 1e10 whenever kfM = 0, whatever vA,
\* and whenever vA = 0; otherwise teM = 1/(kfM*vA).  The same for teK, kfK
\* and vK.
C6_EddyTimeSentinel ==
    Characterized =>
        /\ scal["kfM"] = Zero => scal["teM"] = Sentinel
        /\ scal["vA"] = Sqrt(Zero) => scal["teM"] = Sentinel
        /\ (scal["kfM"] # Zero /\ scal["vA"] # Sqrt(Zero)) =>
            IsInverseOfProduct(scal["teM"], scal["kfM"], scal["vA"])
        /\ scal["kfK"] = Zero => scal["teK"] = Sentinel
        /\ scal["vK"] = Sqrt(Zero) => scal["teK"] = Sentinel
        /\ (scal["kfK"] # Zero /\ scal["vK"] # Sqrt(Zero)) =>
            IsInverseOfProduct(scal["teK"], scal["kfK"], scal["vK"])

\* kfM = 0 with a nonzero Alfven speed, and a nonzero kfK with zero velocity
C6_Witness ==
    /\ Characterized
    /\ scal["kfM"] = Zero /\ scal["vA"] # Sqrt(Zero) /\ scal["teM"] = Sentinel
    /\ scal["kfK"] # Zero /\ scal["vK"] = Sqrt(Zero) /\ scal["teK"] = Sentinel

(***************************************************************************)
(* Properties of the pipeline as a whole.                                  *)
(***************************************************************************)
\* C7: calling characterize_run on a Run that characterize_run has already
\* classified leaves the keys and values of spectra and ts and every
\* classifier scalar as they were, and does not raise.
C7_CharacterizeIdempotent ==
    [][(op' = "characterize_run" /\ "turb" \in DOMAIN scal) =>
           (spectra' = spectra /\ ts' = ts /\ scal' = scal /\ err' = "none")]_vars

Count(l, x) == Cardinality({i \in 1..Len(l) : l[i] = x})

\* two calls of characterize_run in a row on a full run: each has appended
\* rho and EEtot to ts_avail
C7_Witness ==
    /\ Characterized
    /\ nops = 2
    /\ Count(ts_avail, "rho") = 2
    /\ Count(ts_avail, "EEtot") = 2
    /\ Avail("EGW_tot") /\ Avail("helPi") /\ Avail("mag")
    /\ "EGW_tot_mean" \in DOMAIN spectra

\* C8: in whatever order the per-run steps are invoked on a freshly
\* ingested Run, no step raises.
C8_NoStepRaises == err = "none"

\* the maximum of row e over the bins 2..Len(e) and a bin where it is
IsMaxOfTail(mx, kp, e, k) ==
    /\ \A j \in 2..Len(e) : RLe(e[j], mx)
    /\ \E j \in 2..Len(e) : e[j] = mx /\ k[j] = kp

\* C9: compute_mean_max_spectra sets, for every available S and every time
\* index i, S_mean[i] to the trapezoidal integral of S[i, 1:] over k[1:] and
\* S_max[i], S_kpeak[i] to the maximum of S[i, 1:] and the wavenumber of
\* k[1:] where it is attained; bin 0 contributes to none of them.
C9_MeanMaxExcludeZeroBin ==
    op = "compute_mean_max_spectra" =>
        \A n \in 1..Len(spectra_avail) :
            LET S == spectra_avail[n]
                k == spectra["k"]
                Nt == Len(spectra["t_" \o S])
            IN  /\ Len(spectra[S \o "_mean"]) = Nt
                /\ Len(spectra[S \o "_max"]) = Nt
                /\ Len(spectra[S \o "_kpeak"]) = Nt
                /\ \A i \in 1..Nt :
                    /\ spectra[S \o "_mean"][i] =
                           Trapz(SubSeq(spectra[S][i], 2, Len(k)), SubSeq(k, 2, Len(k)))
                    /\ IsMaxOfTail(spectra[S \o "_max"][i], spectra[S \o "_kpeak"][i],
                                   spectra[S][i], k)

\* a mag spectrum whose bin 0 holds the largest value of its first row
C9_Witness ==
    /\ op = "compute_mean_max_spectra"
    /\ Avail("mag")
    /\ spectra["mag"][1][1] = RInt(5)
    /\ spectra["mag_max"][1] = R(1, 5)
    /\ spectra["mag_kpeak"][1] = One
    /\ spectra["mag_mean"][1] = R(1, 5)

(***************************************************************************)
(* Properties of the opt=1 record parser.                                  *)
(***************************************************************************)
Value(sign, mant, exp) == [ok |-> TRUE, sign |-> sign, mant |-> mant, exp |-> exp]
HasE(s) == Has(s, "E")

\* C10: the bare-exponent rewriting of parse mode opt=1 maps the token
\* "1.23-114" to 1.23e-114 and "-1.23-114" to -1.23e-114, and leaves a
\* token that already carries an 'E' numerically unchanged.
C10_BareExponentValue ==
    parse.pc = "parsed" =>
        \A i \in 1..Len(parse.rec) :
            /\ parse.rec[i] = Tok1 => parse.val[i] = Value(1, 123, -116)
            /\ parse.rec[i] = Tok2 => parse.val[i] = Value(-1, 123, -116)
            /\ HasE(parse.rec[i]) => parse.val[i] = Float(parse.rec[i])

\* what holds of the code: the same on the first token of a record, for
\* tokens whose exponent is negative
C10_FirstTokenValue ==
    parse.pc = "parsed" =>
        /\ parse.rec[1] = Tok1 => parse.val[1] = Value(1, 123, -116)
        /\ parse.rec[1] = Tok2 => parse.val[1] = Value(-1, 123, -116)
        /\ parse.rec[1] \in {Tok3, Tok4} => parse.val[1] = Float(parse.rec[1])

(***************************************************************************)
(* Properties of the ingestion of a spectrum file.                         *)
(***************************************************************************)
\* the records of the file whose token count is that of the first record
TokenCountStarts(file) == {i \in 1..Len(file) : Len(file[i]) = Len(file[1])}
NthOf(S, l) == CHOOSE i \in S : Cardinality({j \in S : j <= i}) = l
\* the records after the l-th of these and before the next one
RecordsAfter(file, l) ==
    LET S == TokenCountStarts(file)
        from == NthOf(S, l) + 1
        to == IF l < Cardinality(S) THEN NthOf(S, l + 1) - 1 ELSE Len(file)
    IN  SubSeq(file, from, to)
\* a list of records without the empty records
RECURSIVE NonEmpty(_)
NonEmpty(recs) ==
    IF recs = <<>> THEN <<>>
    ELSE IF Head(recs) = <<>> THEN NonEmpty(Tail(recs))
    ELSE <<Head(recs)>> \o NonEmpty(Tail(recs))

\* C11: once read_spectrum has grouped the records of a file, in either
\* parse mode, the time samples are exactly the records whose token count is
\* that of the first record, and the value list of each sample holds, in file
\* order, the records between it and the next such record.
C11_NewSampleAtTokenCount ==
    parse.pc = "grouped" =>
        LET file == parse.file
            S == TokenCountStarts(file)
        IN  /\ Len(parse.times) = Cardinality(S)
            /\ \A l \in 1..Len(parse.times) :
                   /\ l <= Cardinality(S) => parse.times[l] = file[NthOf(S, l)]
                   /\ l <= Cardinality(S) =>
                          NonEmpty(parse.sp[l + 1]) =
                              [i \in 1..Len(RecordsAfter(file, l)) |->
                                  SpecOf(parse.opt, RecordsAfter(file, l)[i])]

\* the same for the parse mode opt = 1 alone, where content is the token list
C11_TokenCountInOpt1 ==
    (parse.pc = "grouped" /\ parse.opt = 1) => C11_NewSampleAtTokenCount

\* the time of one entry of a stored time grid: the entry itself, or the
\* first token of its row in the parse mode opt = 1
Stored == parse.pc = "stored"
TimeAt(t, l) == IF parse.opt = 0 THEN t[l] ELSE t[l][1]

\* C12: the time grid t_S stored by read_spectra_runs is in non-decreasing
\* order, whatever the order of the time blocks in the file.
C12_TimeGridMonotonic ==
    Stored =>
        \A l \in 1..(Len(spectra["t_GWs"]) - 1) :
            RLe(TimeAt(spectra["t_GWs"], l), TimeAt(spectra["t_GWs"], l + 1))

\* the stored time grid is the sequence of the times of the file, in file order
C12_TimeGridInFileOrder ==
    (Stored /\ parse.opt = 1) =>
        /\ Len(spectra["t_GWs"]) = Cardinality(TokenCountStarts(parse.file))
        /\ \A l \in 1..Len(spectra["t_GWs"]) :
               TimeAt(spectra["t_GWs"], l) =
                   FloatValue(Float(parse.file[NthOf(TokenCountStarts(parse.file), l)][1]))

\* C13: every row of a stored spectrum has as many values as the wavenumber
\* grid.
C13_RowLengthIsK ==
    Stored =>
        \A l \in 1..Len(spectra["GWs"]) : Len(spectra["GWs"][l]) = Len(spectra["k"])

(***************************************************************************)
(* Properties of the derived time series and spectra.                      *)
(***************************************************************************)
Totalled ==
    op \in {"compute_total_max_energies", "characterize_run"} /\ err = "none"
InTs(n) == n \in DOMAIN ts
SameSeries(a, F(_)) == Len(a) = Len(ts["t"]) /\ \A i \in 1..Len(a) : a[i] = F(i)

\* C14: after compute_total_max_energies, ts holds EEtot = EEM + EEK exactly
\* when EEM and EEK are both time series, EEKmax = umax^2/2 exactly when umax
\* is, EEMmax = bmax^2/2 exactly when bmax is, and EEtotmax = EEMmax + EEKmax
\* exactly when umax and bmax both are.
C14_TotalAndMaxEnergies ==
    Totalled =>
        /\ InTs("EEtot") <=> (InTs("EEM") /\ InTs("EEK"))
        /\ InTs("EEKmax") <=> InTs("umax")
        /\ InTs("EEMmax") <=> InTs("bmax")
        /\ InTs("EEtotmax") <=> (InTs("umax") /\ InTs("bmax"))
        /\ InTs("EEtot") =>
               LET F(i) == RAdd(ts["EEM"][i], ts["EEK"][i])
               IN  SameSeries(ts["EEtot"], F)
        /\ InTs("EEKmax") =>
               LET F(i) == RDiv(RMul(ts["umax"][i], ts["umax"][i]), RInt(2))
               IN  SameSeries(ts["EEKmax"], F)
        /\ InTs("EEMmax") =>
               LET F(i) == RDiv(RMul(ts["bmax"][i], ts["bmax"][i]), RInt(2))
               IN  SameSeries(ts["EEMmax"], F)
        /\ InTs("EEtotmax") =>
               LET F(i) == RAdd(ts["EEMmax"][i], ts["EEKmax"][i])
               IN  SameSeries(ts["EEtotmax"], F)

\* compute_total_max_energies has run on a time series of EEM and EEK only
C14_Witness ==
    /\ op = "compute_total_max_energies"
    /\ DOMAIN ts = {"t", "EEM", "EEK", "EEtot"}
    /\ ts["EEtot"] # ts["EEM"]

InSp(n) == n \in DOMAIN spectra
UpdatedEGW == op \in {"update_EGW", "characterize_run"} /\ err = "none"
\* GWs/6 + GWh/(6 t^2) - GWm/(3 t) at time row i and wavenumber j
TotalOf(i, j) ==
    LET t == spectra["t_GWs"][i]
        h == IF Avail("GWh")
             THEN RDiv(spectra["GWh"][i][j], RMul(RInt(6), RMul(t, t))) ELSE Zero
        m == IF Avail("GWm")
             THEN RDiv(spectra["GWm"][i][j], RMul(RInt(3), t)) ELSE Zero
    IN  RSub(RAdd(RDiv(spectra["GWs"][i][j], RInt(6)), h), m)

\* C15: after update_EGW, EGW_tot, OmGW_tot and their time grids are in
\* spectra exactly when GWs and at least one of GWh, GWm are available; then
\* the time grids are t_GWs, EGW_tot = GWs/6 + GWh/(6 t^2) - GWm/(3 t) with
\* the terms of the available spectra, and OmGW_tot = k EGW_tot.
C15_TotalGWSpectrum ==
    UpdatedEGW =>
        LET tot == Avail("GWs") /\ (Avail("GWh") \/ Avail("GWm"))
        IN  /\ \A n \in {"EGW_tot", "OmGW_tot", "t_EGW_tot", "t_OmGW_tot"} :
                   InSp(n) <=> tot
            /\ tot =>
                   /\ spectra["t_EGW_tot"] = spectra["t_GWs"]
                   /\ spectra["t_OmGW_tot"] = spectra["t_GWs"]
                   /\ Len(spectra["EGW_tot"]) = Len(spectra["t_GWs"])
                   /\ Len(spectra["OmGW_tot"]) = Len(spectra["t_GWs"])
                   /\ \A i \in Rows("GWs") :
                          /\ Len(spectra["EGW_tot"][i]) = Len(spectra["k"])
                          /\ Len(spectra["OmGW_tot"][i]) = Len(spectra["k"])
                          /\ \A j \in Cols :
                                 /\ spectra["EGW_tot"][i][j] = TotalOf(i, j)
                                 /\ spectra["OmGW_tot"][i][j] =
                                        RMul(spectra["k"][j], TotalOf(i, j))

\* update_EGW has run with GWs, GWh and GWm available, and both extra terms
\* contribute
C15_Witness ==
    /\ op = "update_EGW"
    /\ Avail("GWs") /\ Avail("GWh") /\ Avail("GWm")
    /\ InSp("EGW_tot")
    /\ \E i \in Rows("GWs") : \E j \in Cols :
           /\ spectra["GWh"][i][j] # Zero
           /\ spectra["GWm"][i][j] # Zero
           /\ spectra["EGW_tot"][i][j] # RDiv(spectra["GWs"][i][j], RInt(6))

(***************************************************************************)
(* Properties of the operations of a Run taken together.                   *)
(***************************************************************************)
InTsAvail(n) == InList(n, ts_avail)
RunUntouched ==
    /\ spectra' = spectra /\ ts' = ts
    /\ spectra_avail' = spectra_avail /\ ts_avail' = ts_avail
    /\ err' = "none"

Restored(file) == Unpickle(file)
ClassifierScalars ==
    {"turb", "Ommax", "OmMmax", "OmKmax", "tmaxM", "tmaxK", "kfM", "kfK",
     "vA", "vK", "teM", "teK", "tini", "kf", "v", "te"}
SameRun(r) ==
    /\ DOMAIN r.spectra = DOMAIN spectra
    /\ \A key \in DOMAIN spectra : r.spectra[key] = spectra[key]
    /\ DOMAIN r.ts = DOMAIN ts
    /\ \A key \in DOMAIN ts : r.ts[key] = ts[key]
    /\ \A a \in ClassifierScalars :
           /\ a \in DOMAIN r.scal <=> a \in DOMAIN scal
           /\ a \in DOMAIN scal => r.scal[a] = scal[a]

C18_KeysOnlyGrow ==
    [][/\ DOMAIN spectra \subseteq DOMAIN spectra'
       /\ DOMAIN ts \subseteq DOMAIN ts']_vars

\* two operations have each added keys to spectra, or to ts
C18_Witness ==
    \/ /\ nops = 2 /\ op = "min_max_stat"
       /\ InSp("GWs_stat_sp") /\ InSp("GWs_mean")
    \/ /\ nops = 2 /\ op = "compute_rho"
       /\ InTs("rho") /\ InTs("EEtot")

\* the names of the spectra a key of spectra can belong to
SpectrumKeys == DOMAIN spectra \ {"k", "k0"}

\* C19: at every point a name S is in spectra_avail exactly when S and
\* 't_' + S are both keys of spectra other than k and k0, whatever
\* characters the name of a spectrum file holds.
C19_AvailIffBothKeys ==
    err = "none" =>
        /\ \A S \in SpectrumKeys : ("t_" \o S) \in SpectrumKeys => Avail(S)
        /\ \A i \in 1..Len(spectra_avail) :
               /\ spectra_avail[i] \in SpectrumKeys
               /\ ("t_" \o spectra_avail[i]) \in SpectrumKeys

\* the same for the runs none of whose file names holds 't_'
C19_AvailIffBothKeysPlainNames ==
    (err = "none" /\ ~InSp(OddName)) => C19_AvailIffBothKeys

\* the window of rows min_max_stat reduces, and its columns
StatRows == {i \in 1..Len(spectra[ret'.sp]) : i > ret'.indt}
StatCols == 2..Len(spectra["k"])
IsMinOver(x, j) ==
    /\ \E i \in StatRows : x = spectra[ret'.sp][i][j]
    /\ \A i \in StatRows : RLe(x, spectra[ret'.sp][i][j])
IsMaxOver(x, j) ==
    /\ \E i \in StatRows : x = spectra[ret'.sp][i][j]
    /\ \A i \in StatRows : RLe(spectra[ret'.sp][i][j], x)
StatKeys(sp, hel) ==
    {sp \o "_min_sp", sp \o "_max_sp", sp \o "_stat_sp"} \cup
    (IF hel THEN {sp \o "_pos_min_sp", sp \o "_neg_min_sp",
                  sp \o "_pos_max_sp", sp \o "_neg_max_sp"} ELSE {})
Smaller(a, b) == IF RLe(a, b) THEN a ELSE b
Larger(a, b) == IF RLe(a, b) THEN b ELSE a

\* C20: min_max_stat(sp, indt, hel) on an available spectrum writes
\* sp_min_sp, sp_max_sp and sp_stat_sp over the wavenumbers k[1:]; without
\* hel they are the minimum and the maximum over the rows indt .. end of
\* sp[:,1:]; with hel they are the elementwise minimum and maximum of the
\* stored positive-branch and negative-branch results; no other key of
\* spectra changes and spectra_avail does not change.
C20_MinMaxStat ==
    [][(op' = "min_max_stat" /\ Avail(ret'.sp)) =>
        LET sp == ret'.sp
            hel == ret'.hel
            n == Len(spectra["k"]) - 1
        IN  /\ err' = "none"
            /\ spectra_avail' = spectra_avail
            /\ DOMAIN spectra' = DOMAIN spectra \cup StatKeys(sp, hel)
            /\ \A key \in DOMAIN spectra \ StatKeys(sp, hel) :
                   spectra'[key] = spectra[key]
            /\ \A key \in StatKeys(sp, hel) : Len(spectra'[key]) = n
            /\ ~hel => \A j \in StatCols :
                   /\ IsMinOver(spectra'[sp \o "_min_sp"][j - 1], j)
                   /\ IsMaxOver(spectra'[sp \o "_max_sp"][j - 1], j)
            /\ hel => \A j \in 1..n :
                   /\ spectra'[sp \o "_min_sp"][j] =
                          Smaller(spectra'[sp \o "_pos_min_sp"][j],
                                  spectra'[sp \o "_neg_min_sp"][j])
                   /\ spectra'[sp \o "_max_sp"][j] =
                          Larger(spectra'[sp \o "_pos_max_sp"][j],
                                 spectra'[sp \o "_neg_max_sp"][j])]_vars

\* min_max_stat has run in helical mode on a signed spectrum whose two
\* branches differ, over the window that starts at the second row
C20_Witness ==
    /\ op = "min_max_stat" /\ err = "none"
    /\ ret.sp = "helGWs" /\ ret.hel /\ ret.indt = 1
    /\ InSp("helGWs_min_sp")
    /\ \E j \in 1..Len(spectra["helGWs_min_sp"]) :
           /\ spectra["helGWs_neg_min_sp"][j] # spectra["helGWs_pos_min_sp"][j]
           /\ spectra["helGWs_min_sp"][j] # spectra["helGWs_max_sp"][j]

(***************************************************************************)
(* characterize_runs, the function of the module that loops over a         *)
(* dictionary of runs.  The dictionary holds the Run under its name; the   *)
(* runs are objects, so the loop changes them in place.  The function body *)
(* ends with the loop: a Python function without a return statement        *)
(* returns None.                                                           *)
(***************************************************************************)
None == [object |-> "None"]

\* the runs of the dictionary after the loop
characterize_runs(rs) == [i \in DOMAIN rs |-> characterize_run(rs[i])]

DoCharacterizeRuns ==
    /\ Invoke("characterize_runs", characterize_runs(RunName :> St)[RunName])
    /\ ret' = None

NextRuns ==
    \/ DoCharacterizeRuns
    \/ DoCharacterize

SpecRuns == InitOps /\ [][NextRuns]_vars

\* C21: characterize_runs(runs) invokes characterize_run on every run of the
\* dictionary and returns the updated dictionary of runs: after the call the
\* Run is the one characterize_run produces and the returned object is the
\* dictionary runs.
C21_ReturnsUpdatedRuns ==
    (op = "characterize_runs" /\ err = "none") =>
        ("turb" \in DOMAIN scal /\ ret.object = "runs")

\* the part of C21 the code meets: every run of the dictionary has been
\* through characterize_run
C21_EveryRunCharacterized ==
    [][op' = "characterize_runs" =>
          /\ spectra' = characterize_run(St).spectra
          /\ ts' = characterize_run(St).ts
          /\ scal' = characterize_run(St).scal
          /\ ts_avail' = characterize_run(St).ts_avail
          /\ spectra_avail' = characterize_run(St).spectra_avail]_vars

(***************************************************************************)
(* sensitivity(file) of reading.py.  A line of the .csv file is the        *)
(* sequence of its characters, 'frequency;value' with decimal commas and   *)
(* the newline at its end; the file is read line by line, the strings are  *)
(* converted by float() and both arrays are reordered by argsort(f).       *)
(***************************************************************************)
\* largest number of lines of a sensitivity file
MaxRows == 3

\* "1,5;2\n", "0,5;1,5\n", "1,5;0,5\n" (the frequency of the first one
\* again), "2;1" (a last line without newline) and the blank line "\n"
SensLine1 == <<"1", ",", "5", ";", "2", "\n">>
SensLine2 == <<"0", ",", "5", ";", "1", ",", "5", "\n">>
SensLine3 == <<"1", ",", "5", ";", "0", ",", "5", "\n">>
SensLine4 == <<"2", ";", "1">>
SensBlank == <<"\n">>
SensLines == {SensLine1, SensLine2, SensLine3, SensLine4, SensBlank}

\* the files: only the last line of a file can lack its newline
SensFiles ==
    {file \in UNION {[1..n -> SensLines] : n \in 0..MaxRows} :
        \A i \in 1..(Len(file) - 1) : file[i][Len(file[i])] = "\n"}

\* s.split(c)
RECURSIVE Split(_, _)
Split(s, c) ==
    IF ~Has(s, c) THEN <<s>>
    ELSE <<SubSeq(s, 1, IndexOf(s, c) - 1)>>
             \o Split(SubSeq(s, IndexOf(s, c) + 1, Len(s)), c)

\* s.replace(c, w)
RECURSIVE Replace(_, _, _)
Replace(s, c, w) ==
    IF s = <<>> THEN <<>>
    ELSE (IF Head(s) = c THEN w ELSE <<Head(s)>>) \o Replace(Tail(s), c, w)

\* fp.readline() at line pos + 1: the empty string at the end of the file
Readline(file, pos) == IF pos < Len(file) THEN file[pos + 1] ELSE <<>>

\* x[0].replace(',', '.') and x[1].replace('\n', '').replace(',', '.')
SensF(x) == Replace(x[1], ",", <<".">>)
SensOm(x) == Replace(Replace(x[2], "\n", <<>>), ",", <<".">>)

\* np.array(strings, dtype='float')
AsFloats(strs) == [i \in 1..Len(strs) |-> Float(strs[i])]
FloatValues(fl) == [i \in 1..Len(fl) |-> FloatValue(fl[i])]

\* np.argsort(f): an index array that puts f in ascending order; the order
\* of equal entries is not fixed by the default sort
ArgSorts(f) ==
    {inds \in [1..Len(f) -> 1..Len(f)] :
        /\ \A i, j \in 1..Len(f) : i # j => inds[i] # inds[j]
        /\ \A i \in 1..(Len(f) - 1) : RLe(f[inds[i]], f[inds[i + 1]])}

\* a[inds]
ReorderOm_unsorted(a, inds) == a

ReorderOm(a, inds) == [i \in 1..Len(inds) |-> a[inds[i]]]
ReorderF(a, inds) == [i \in 1..Len(inds) |-> a[inds[i]]]

InitSens ==
    /\ NoRun
    /\ \E file \in SensFiles :
           parse = [pc |-> "open", file |-> file, pos |-> 0, line |-> <<>>,
                    f |-> <<>>, OmGW |-> <<>>]

\* the first line is read outside the try: a line without ';' raises
SensFirstOf(x) ==
    IF Len(x) < 2
    THEN [parse EXCEPT !.pc = "raised", !.line = Readline(parse.file, 0),
                       !.pos = 1, !.f = <<SensF(x)>>]
    ELSE [parse EXCEPT !.pc = "loop", !.line = Readline(parse.file, 0),
                       !.pos = 1, !.f = <<SensF(x)>>, !.OmGW = <<SensOm(x)>>]

SensFirst ==
    /\ parse.pc = "open"
    /\ parse' = SensFirstOf(Split(Readline(parse.file, 0), ";"))
    /\ UNCHANGED runvars

\* one pass of 'while line': the next line is read and, when it has a
\* second field, both fields are appended; otherwise nothing is
SensNextOf(line, x) ==
    IF Len(x) < 2
    THEN [parse EXCEPT !.line = line, !.pos = parse.pos + 1]
    ELSE [parse EXCEPT !.line = line, !.pos = parse.pos + 1,
                       !.OmGW = Append(parse.OmGW, SensOm(x)),
                       !.f = Append(parse.f, SensF(x))]

SensNext ==
    /\ parse.pc = "loop"
    /\ parse.line # <<>>
    /\ parse' = SensNextOf(Readline(parse.file, parse.pos),
                           Split(Readline(parse.file, parse.pos), ";"))
    /\ UNCHANGED runvars

\* after the loop: conversion, argsort and the reordering of both arrays
SensSortOf(f, OmGW) ==
    IF \E i \in 1..Len(f) : ~f[i].ok \/ ~OmGW[i].ok
    THEN {[parse EXCEPT !.pc = "raised"]}
    ELSE {[parse EXCEPT !.pc = "returned",
                        !.f = ReorderF(FloatValues(f), inds),
                        !.OmGW = ReorderOm(FloatValues(OmGW), inds)] :
             inds \in ArgSorts(FloatValues(f))}

SensSort ==
    /\ parse.pc = "loop"
    /\ parse.line = <<>>
    /\ parse' \in SensSortOf(AsFloats(parse.f), AsFloats(parse.OmGW))
    /\ UNCHANGED runvars

NextSens ==
    \/ SensFirst
    \/ SensNext
    \/ SensSort

SpecSens == InitSens /\ [][NextSens]_vars

\* the pair a line of the file stands for, and the lines that hold a pair
PairOfLine(line) ==
    CASE line = SensLine1 -> <<R(3, 2), RInt(2)>>
      [] line = SensLine2 -> <<R(1, 2), R(3, 2)>>
      [] line = SensLine3 -> <<R(3, 2), R(1, 2)>>
      [] line = SensLine4 -> <<RInt(2), RInt(1)>>
DataLines(file) == {l \in 1..Len(file) : file[l] # SensBlank}

\* C22: sensitivity(file) returns arrays f and OmGW of equal length, f in
\* ascending order, and the pairs (f[i], OmGW[i]) are the pairs of the
\* 'frequency;value' lines of the file, each line once: a permutation of the
\* input rows with no pair split or mismatched.
C22_SortedPermutationOfRows ==
    parse.pc = "returned" =>
        /\ Len(parse.f) = Len(parse.OmGW)
        /\ \A i \in 1..(Len(parse.f) - 1) : RLe(parse.f[i], parse.f[i + 1])
        /\ \E row \in [1..Len(parse.f) -> DataLines(parse.file)] :
               /\ \A l \in DataLines(parse.file) : \E i \in 1..Len(parse.f) : row[i] = l
               /\ \A i, j \in 1..Len(parse.f) : i # j => row[i] # row[j]
               /\ \A i \in 1..Len(parse.f) :
                      <<parse.f[i], parse.OmGW[i]>> = PairOfLine(parse.file[row[i]])

\* a file whose rows are out of order, with a blank line between them: the
\* rows come back sorted, each value with its frequency
C22_Witness ==
    /\ parse.pc = "returned"
    /\ parse.file = <<SensLine1, SensBlank, SensLine2>>
    /\ parse.f = <<R(1, 2), R(3, 2)>>
    /\ parse.OmGW = <<R(3, 2), RInt(2)>>

(***************************************************************************)
(* The transforms of cosmoGW.py.  A quantity is a product of powers of the *)
(* numbers 2, 3, 5 and pi, of the values the functions of the cosmology    *)
(* module return (Hs, as, H0) and of the units Hz and MeV, or zero with    *)
(* its units; the exponents are kept in sixths, so that square roots and   *)
(* the powers 3/2, 1/6 and -1/3 are exact and two quantities are equal     *)
(* exactly when their exponents are.                                       *)
(***************************************************************************)
\* largest exponent of 2 in a frequency, wave number or spectrum value
MaxExp == 2

UnitGens == {"Hz", "MeV"}
Gens == {"2", "3", "5", "pi", "Hs", "as", "H0"} \cup UnitGens

Quantity(z, e) ==
    [zero |-> z, e |-> [g \in Gens |-> IF z /\ g \notin UnitGens THEN 0 ELSE e[g]]]
MGen(gen, sixths) == Quantity(FALSE, [g \in Gens |-> IF g = gen THEN sixths ELSE 0])
MOne == MGen("2", 0)
MMul(a, b) == Quantity(a.zero \/ b.zero, [g \in Gens |-> a.e[g] + b.e[g]])
MDiv(a, b) == Quantity(a.zero, [g \in Gens |-> a.e[g] - b.e[g]])
\* a ** (n / d)
MPow(a, n, d) == Quantity(a.zero, [g \in Gens |-> (a.e[g] * n) \div d])
MSqrt(a) == MPow(a, 1, 2)

MTwo == MGen("2", 6)
MTwelve == MMul(MPow(MTwo, 2, 1), MGen("3", 6))
MPi == MGen("pi", 6)
Hz == MGen("Hz", 6)
MeV == MGen("MeV", 6)

\* what a call gives: the returned value, or the exception it raises
Return(v) == [ok |-> TRUE, raised |-> "", val |-> v]
Raise(e) == [ok |-> FALSE, raised |-> e, val |-> MOne]

\* q.to(unit) raises UnitConversionError unless q has the dimensions of unit
Convertible(q, unit) == \A g \in UnitGens : q.e[g] = unit.e[g]

\* the names bound in the module: its imports and its functions
Globals ==
    {"const", "u", "np", "co", "fac_hc_OmGW", "hc_OmGW", "hc_Sf", "Omega_A",
     "shift_onlyOmGW_today", "shift_frequency_today", "shift_OmGW_today",
     "shift_hc_today"}
\* a name that is not bound raises NameError where it is evaluated
Bound(name) == name \in Globals

\* the values cosmology.Hs_fact(), cosmology.as_fact() and the H0 of
\* cosmology.values_0() stand for
Hs_factValue == MGen("Hs", 6)
as_factValue == MGen("as", 6)
H0Value == MGen("H0", 6)

\* the arithmetic of hc_Sf on values already in Hz and 1/Hz^3
hc_SfValue(f, Sf, d) ==
    IF d = -1
    THEN MDiv(MDiv(MDiv(MPow(Sf, 2, 1), MTwelve), MPow(MPi, 2, 1)), MPow(f, 3, 2))
    ELSE MMul(MSqrt(MMul(MTwelve, MPow(MPi, 2, 1))), MSqrt(MMul(Sf, MPow(f, 3, 1))))

hc_Sf(f, Sf, d) ==
    IF ~Convertible(f, Hz) \/ ~Convertible(Sf, MPow(Hz, -3, 1))
    THEN Raise("UnitConversionError")
    ELSE Return(hc_SfValue(f, Sf, d))

\* OmGW_f = Hs_f**2/H0**2*as_f**4 with Hs_f in MeV^2 and as_f in 1/MeV
OmGW_fValue ==
    MMul(MDiv(MPow(MMul(Hs_factValue, MPow(MeV, 2, 1)), 2, 1), MPow(H0Value, 2, 1)),
         MPow(MDiv(as_factValue, MeV), 4, 1))

shift_onlyOmGW_today(OmGW, g, d, h0) ==
    IF ~Bound("Hs_fact") \/ ~Bound("as_fact") \/ ~Bound("values_0")
    THEN Raise("NameError")
    ELSE IF d = -1 THEN Return(MDiv(MDiv(OmGW, OmGW_fValue), MPow(g, -1, 3)))
    ELSE Return(MMul(MMul(OmGW, OmGW_fValue), MPow(g, -1, 3)))

\* f_f = Hs_f*as_f/2/np.pi
f_fValue == MDiv(MDiv(MMul(Hs_factValue, as_factValue), MTwo), MPi)

shift_frequency_today(k, g, T, d) ==
    IF ~Bound("Hs_fact") \/ ~Bound("as_fact") THEN Raise("NameError")
    ELSE IF ~Convertible(T, MeV) THEN Raise("UnitConversionError")
    ELSE IF d = -1
    THEN IF ~Convertible(k, Hz) THEN Raise("UnitConversionError")
         ELSE Return(MDiv(MDiv(MDiv(k, f_fValue), MPow(g, 1, 6)), T))
    ELSE Return(MMul(MMul(MMul(k, f_fValue), MPow(g, 1, 6)), T))

\* hc0, then f from shift_frequency_today; the pair (f, hc0) is returned
shift_hc_todayOf(hc0, f) ==
    IF f.ok THEN Return(<<f.val, hc0>>) ELSE [f EXCEPT !.val = <<MOne, MOne>>]

shift_hc_today(k, hc, g, T, d) ==
    IF ~Bound("as_fact") THEN [Raise("NameError") EXCEPT !.val = <<MOne, MOne>>]
    ELSE IF ~Convertible(T, MeV)
    THEN [Raise("UnitConversionError") EXCEPT !.val = <<MOne, MOne>>]
    ELSE IF d = -1
    THEN shift_hc_todayOf(MMul(MDiv(MDiv(hc, as_factValue), MPow(g, -1, 3)), T),
                          shift_frequency_today(k, g, T, d))
    ELSE shift_hc_todayOf(MDiv(MMul(MMul(hc, as_factValue), MPow(g, -1, 3)), T),
                          shift_frequency_today(k, g, T, d))

\* the default arguments g = 10 and T = 100 MeV, and h0 = 1
G10 == MMul(MTwo, MGen("5", 6))
T100 == MMul(MMul(MPow(MTwo, 2, 1), MPow(MGen("5", 6), 2, 1)), MeV)

Transforms ==
    {"hc_Sf", "shift_onlyOmGW_today", "shift_frequency_today", "shift_hc_today"}

\* the inputs: 2^i 3^j, and zero for the second argument; hc_Sf takes a
\* frequency in Hz and a power spectral density in 1/Hz^3
Numbers == {MMul(MPow(MTwo, i, 1), MPow(MGen("3", 6), j, 1)) : i \in 0..MaxExp, j \in 0..1}
FirstArgs(fn) == IF fn = "hc_Sf" THEN {MMul(n, Hz) : n \in Numbers} ELSE Numbers
SecondArgs(fn) ==
    IF fn = "hc_Sf"
    THEN {MDiv(n, MPow(Hz, 3, 1)) : n \in Numbers}
             \cup {Quantity(TRUE, MPow(Hz, -3, 1).e)}
    ELSE Numbers \cup {Quantity(TRUE, MOne.e)}

CallTransform(fn, a, b, d) ==
    CASE fn = "hc_Sf" -> hc_Sf(a, b, d)
      [] fn = "shift_onlyOmGW_today" -> shift_onlyOmGW_today(b, G10, d, MOne)
      [] fn = "shift_frequency_today" -> shift_frequency_today(a, G10, T100, d)
      [] fn = "shift_hc_today" -> shift_hc_today(a, b, G10, T100, d)

NotCalled == [ok |-> FALSE, raised |-> "", val |-> MOne]

InitTransform ==
    /\ NoRun
    /\ \E fn \in Transforms :
           \E a \in FirstArgs(fn), b \in SecondArgs(fn) :
               parse = [pc |-> "input", fn |-> fn, a |-> a, b |-> b,
                        out |-> NotCalled, back |-> NotCalled]

\* the call with d = 1
DoTransform ==
    /\ parse.pc = "input"
    /\ parse' = [parse EXCEPT !.pc = "forward",
                              !.out = CallTransform(parse.fn, parse.a, parse.b, 1)]
    /\ UNCHANGED runvars

\* the arguments of the call with d = -1: the output of the call with d = 1
BackFirst(fn, a, out) ==
    CASE fn = "shift_frequency_today" -> out
      [] fn = "shift_hc_today" -> out[1]
      [] OTHER -> a
BackSecond(fn, out) == IF fn = "shift_hc_today" THEN out[2] ELSE out

\* the call with d = -1 on what the call with d = 1 returned
DoInverse ==
    /\ parse.pc = "forward"
    /\ parse.out.ok
    /\ parse' = [parse EXCEPT !.pc = "back",
                              !.back = CallTransform(parse.fn,
                                           BackFirst(parse.fn, parse.a, parse.out.val),
                                           BackSecond(parse.fn, parse.out.val), -1)]
    /\ UNCHANGED runvars

NextTransform ==
    \/ DoTransform
    \/ DoInverse

SpecTransform == InitTransform /\ [][NextTransform]_vars

\* the round trip is over: the call with d = 1 raised, or the call with
\* d = -1 has been made
RoundTripOver == parse.pc = "back" \/ (parse.pc = "forward" /\ ~parse.out.ok)

\* C23: hc_Sf with d = -1 is the inverse of hc_Sf with d = 1: for every
\* f > 0 and Sf >= 0, hc_Sf(f, hc_Sf(f, Sf, d=1), d=-1) returns Sf.
C23_hc_SfRoundTrip ==
    (parse.fn = "hc_Sf" /\ RoundTripOver) =>
        (parse.out.ok /\ parse.back.ok /\ parse.back.val = parse.b)

\* the arithmetic of the d = -1 branch alone, on the number hc_Sf returned
\* with d = 1: it is not the algebraic inverse either
C23_ValueRoundTrip ==
    (parse.fn = "hc_Sf" /\ parse.pc = "forward" /\ parse.out.ok) =>
        hc_SfValue(parse.a, parse.out.val, -1) = parse.b

\* C24: each present-day redshift transform is inverted by its direction
\* flag: for fixed g, T and h0 the call with d = -1 on the output of the call
\* with d = 1 returns the original k, OmGW or (k, hc).
C24_ShiftRoundTrip ==
    (parse.fn # "hc_Sf" /\ RoundTripOver) =>
        /\ parse.out.ok /\ parse.back.ok
        /\ parse.fn = "shift_frequency_today" => parse.back.val = parse.a
        /\ parse.fn = "shift_onlyOmGW_today" => parse.back.val = parse.b
        /\ parse.fn = "shift_hc_today" => parse.back.val = <<parse.a, parse.b>>

\* the three reductions compute_mean_max_spectra stores for a spectrum
ReductionKeys(S) == {S \o "_kpeak", S \o "_max", S \o "_mean"}

\* C25: after characterize_run returns, every name in spectra_avail, the
\* spectra derived during that same call included, has S_kpeak, S_max and
\* S_mean entries in spectra, each of length len(t_S).
C25_EveryAvailableSpectrumReduced ==
    Characterized =>
        \A i \in 1..Len(spectra_avail) :
            \A key \in ReductionKeys(spectra_avail[i]) :
                /\ InSp(key)
                /\ Len(spectra[key]) = Len(spectra["t_" \o spectra_avail[i]])

\* one call of characterize_run on a run that had none of the derived
\* spectra: Pi, helPi and the GW spectra are derived and reduced by it
C25_Witness ==
    /\ Characterized
    /\ nops = 1
    /\ Avail("Pi") /\ Avail("helPi") /\ Avail("EGW") /\ Avail("OmGW")
    /\ Avail("EGW_tot") /\ Avail("OmGW_tot") /\ Avail("helEGW_tot")
    /\ InSp("helPi_kpeak") /\ InSp("OmGW_tot_mean") /\ InSp("helEGW_tot_max")
    /\ Len(spectra["EGW_tot_max"]) = Len(spectra["t_GWs"])

\* update_Pi has returned on a run whose helStr is available
UpdatedPiWithHelStr == op = "update_Pi" /\ err = "none" /\ Avail("helStr")

\* the keys update_Pi is to write for the helical stress
HelPiWritten == Avail("helPi") /\ InSp("helPi") /\ InSp("t_helPi")

\* C26: update_Pi writes helPi (= helStr / k^2, zero at k == 0) and t_helPi,
\* and adds helPi to spectra_avail, whenever helStr is available,
\* independently of whether the non-helical Str is available.
C26_HelPiWheneverHelStr ==
    UpdatedPiWithHelStr =>
        /\ HelPiWritten
        /\ spectra["t_helPi"] = spectra["t_helStr"]
        /\ \A i \in Rows("helStr"), j \in Cols :
               spectra["helPi"][i][j] =
                   IF spectra["k"][j] = Zero THEN Zero
                   ELSE RDiv(spectra["helStr"][i][j], RSq(spectra["k"][j]))

\* the part of C26 about the keys alone, on the runs without Str
C26_HelPiWithoutStr == (UpdatedPiWithHelStr /\ ~Avail("Str")) => HelPiWritten

\* the value the parser gives a token that is alone in its record
AloneValue(fn, tok) == Float(RewriteRecord(fn, <<tok>>)[1])

\* C27: in parse mode opt=1 (read_spectrum and read_ts) the value and sign
\* obtained for a token depend only on that token: a token has the value it
\* has when alone in its record, whatever tokens come before it, and a
\* negative token without a negative exponent ("-1.23", "-1.23E+05") keeps
\* its minus sign.
C27_TokenValueDependsOnTokenOnly ==
    parse.pc = "parsed" =>
        \A i \in 1..Len(parse.rec) :
            /\ parse.val[i] = AloneValue(parse.fn, parse.rec[i])
            /\ parse.rec[i] \in {Tok6, Tok7} => parse.val[i].sign = -1

\* the two halves of C27 apart: the sign of a token after a negative one,
\* and the sign of a negative token without a negative exponent
C27_NoSignCarriedOver ==
    (parse.pc = "parsed" /\ Len(parse.rec) = 2 /\ parse.rec[1][1] = "-") =>
        parse.val[2].sign = Float(parse.rec[2]).sign
C27_MinusSignKept ==
    (parse.pc = "parsed" /\ parse.rec[1] \in {Tok6, Tok7}) => parse.val[1].sign = -1

\* no name occurs twice in the list
NoDuplicates(l) == \A i, j \in 1..Len(l) : l[i] = l[j] => i = j

\* C28: after any number of invocations, in any order, of update_Pi,
\* update_EGW, compute_rho, compute_total_max_energies and characterize_run
\* on a Run, the lists spectra_avail and ts_avail contain no name more than
\* once.
C28_AvailListsWithoutDuplicates ==
    NoDuplicates(spectra_avail) /\ NoDuplicates(ts_avail)

\* what holds of the code: spectra_avail, whose appends are guarded
C28_SpectraAvailWithoutDuplicates == NoDuplicates(spectra_avail)

(***************************************************************************)
(* The working directory of the process across the file operations of      *)
(* reading.py and run.save.  A directory is the sequence of the names on   *)
(* its absolute path; a path given to os.chdir is absolute or relative to  *)
(* the working directory; '+' on two path strings joins them.              *)
(***************************************************************************)
Path(abs, comps) == [abs |-> abs, comps |-> comps]
\* '.'
Dot == Path(FALSE, <<>>)
JoinPath(p, q) == Path(p.abs, p.comps \o q.comps)
ResolvePath(cwd, p) == IF p.abs THEN p.comps ELSE cwd \o p.comps

\* the directories that exist: /, /home, the run directory /home/A with its
\* data directory, and /home/detector_sensitivity
Directories ==
    {<<>>, <<"home">>, <<"home", "A">>, <<"home", "A", "data">>,
     <<"home", "detector_sensitivity">>}
DirRun == Path(FALSE, <<"A">>)
DataDir == Path(FALSE, <<"data">>)

\* os.chdir(p): the new working directory, or FileNotFoundError
chdir(cwd, p) ==
    IF ResolvePath(cwd, p) \in Directories
    THEN [raised |-> "", cwd |-> ResolvePath(cwd, p)]
    ELSE [raised |-> "FileNotFoundError", cwd |-> cwd]

FileOps ==
    {"read_spectra_runs", "read_ts", "read_spectrum", "read_k", "read_L",
     "sensitivity", "save"}

\* the directory arguments: dir0 for read_spectra_runs and save, dir for
\* sensitivity, dir_data for the others
DirArgs(fn) ==
    CASE fn = "read_spectra_runs" -> {Path(TRUE, <<"home">>), Path(FALSE, <<"home">>)}
      [] fn = "save" -> {Dot, Path(TRUE, <<"home">>), Path(FALSE, <<"home">>)}
      [] fn = "sensitivity" ->
             {Path(FALSE, <<"detector_sensitivity">>),
              Path(TRUE, <<"home", "detector_sensitivity">>)}
      [] OTHER -> {Dot, Path(TRUE, <<"home", "A", "data">>), Path(FALSE, <<"A", "data">>)}

\* the directory the operation moves to at its start, '.' when it stays
EntryTarget(fn, arg) ==
    CASE fn = "read_spectra_runs" -> JoinPath(JoinPath(arg, DirRun), DataDir)
      [] fn = "save" -> IF arg # Dot THEN JoinPath(arg, DirRun) ELSE Dot
      [] OTHER -> arg

\* the names bound when the operation reaches its last os.chdir: the
\* parameters and the locals assigned on the way, over the names of the
\* module (reading.py binds its six functions only)
ReadingGlobals ==
    {"read_spectra_runs", "read_ts", "read_spectrum", "read_k", "read_L",
     "sensitivity"}
LocalsOf(fn, arg) ==
    CASE fn = "read_spectra_runs" -> {"dir0", "dir_run", "opt", "dir_data"}
      [] fn = "save" -> {"self", "dir0"} \cup (IF arg # Dot THEN {"cwd"} ELSE {})
      [] fn = "sensitivity" -> {"file", "dir", "cwd"}
      [] OTHER -> {"dir_data"} \cup (IF arg # Dot THEN {"cwd"} ELSE {})

\* the name the last os.chdir is given, and whether it is reached
ExitName(fn) ==
    IF fn \in {"read_spectra_runs", "read_spectrum", "read_k", "read_L"}
    THEN "dir0" ELSE "cwd"
ExitReached(fn, arg) == fn \in {"read_spectra_runs", "sensitivity"} \/ arg # Dot

\* the caller names a directory that exists
InitDir ==
    /\ NoRun
    /\ \E fn \in FileOps, entry \in Directories :
           \E arg \in DirArgs(fn) :
               /\ ResolvePath(entry, EntryTarget(fn, arg)) \in Directories
               /\ parse = [pc |-> "entry", fn |-> fn, arg |-> arg, entry |-> entry,
                           cwd |-> entry, saved |-> entry, raised |-> ""]

\* cwd = os.getcwd() where the code has it, then os.chdir to the data
\* directory, and the body of the operation in that directory
DirEnter ==
    /\ parse.pc = "entry"
    /\ parse' = [parse EXCEPT !.pc = "inside",
                              !.saved = parse.cwd,
                              !.cwd = chdir(parse.cwd,
                                            EntryTarget(parse.fn, parse.arg)).cwd]
    /\ UNCHANGED runvars

\* the value of the name the last os.chdir is given
ExitPath(name, arg, saved) == IF name = "dir0" THEN arg ELSE Path(TRUE, saved)

DirExitOf(name, bound, back) ==
    IF ~bound THEN [parse EXCEPT !.pc = "raised", !.raised = "NameError"]
    ELSE IF back.raised # ""
    THEN [parse EXCEPT !.pc = "raised", !.raised = back.raised]
    ELSE [parse EXCEPT !.pc = "returned", !.cwd = back.cwd]

\* the last os.chdir and the return
DirExit ==
    /\ parse.pc = "inside"
    /\ parse' =
           IF ~ExitReached(parse.fn, parse.arg) THEN [parse EXCEPT !.pc = "returned"]
           ELSE DirExitOf(ExitName(parse.fn),
                          ExitName(parse.fn) \in LocalsOf(parse.fn, parse.arg)
                                                    \cup ReadingGlobals,
                          chdir(parse.cwd,
                                ExitPath(ExitName(parse.fn), parse.arg, parse.saved)))
    /\ UNCHANGED runvars

NextDir ==
    \/ DirEnter
    \/ DirExit

SpecDir == InitDir /\ [][NextDir]_vars

\* the operation is over
DirOver == parse.pc \in {"returned", "raised"}

\* C29: every file operation leaves the process working directory as it
\* found it: read_spectra_runs, read_ts, sensitivity and run.save return with
\* the working directory equal to its value at entry, and read_k, read_L and
\* read_spectrum called with a dir_data other than '.' return their result
\* and restore the initial directory.
C29_WorkingDirectoryRestored ==
    DirOver => (parse.pc = "returned" /\ parse.cwd = parse.entry)

\* what holds of the code: read_ts, sensitivity and save, and the three
\* readers called with dir_data = '.'
C29_RestoredFromSavedCwd ==
    (DirOver /\ (parse.fn \in {"read_ts", "sensitivity", "save"} \/ parse.arg = Dot)) =>
        (parse.pc = "returned" /\ parse.cwd = parse.entry)

\* read_spectra_runs returns to dir0 when dir0 is absolute
C29_ReadSpectraRunsEndsInDir0 ==
    (DirOver /\ parse.fn = "read_spectra_runs" /\ parse.arg.abs) =>
        (parse.pc = "returned" /\ parse.cwd = parse.arg.comps)

====
